---- MODULE Spec2Model ----
(***************************************************************************)
(* Model of quickdev / WatchTower: the process supervisor                  *)
(* (internal/process/manager.go) and the polling file watcher with its     *)
(* batcher (internal/watcher/watcher.go).                                  *)
(*                                                                         *)
(* Time is a discrete clock `now`.  One unit of the clock stands for one   *)
(* polling interval; every duration of the configuration is expressed in   *)
(* that unit.  Timers and sleeps may fire at or after their deadline.      *)
(***************************************************************************)
EXTENDS Integers, Sequences, FiniteSets, TLC

VARIABLES
    now,            \* the wall clock (time.Now())
    \* ---- ProcessManager (manager.go:18-29) and its environment
    pmConfig,       \* pm.config, the fields the manager reads
    cmd,            \* pm.cmd: id of the child the handle refers to, 0 = none
    mutex,          \* pm.mutex: Free or the caller holding it
    stats,          \* pm.stats
    lastRestart,    \* pm.lastRestart
    restartCount,   \* pm.restartCount
    isRunning,      \* pm.isRunning
    child,          \* OS state of every child the manager launched
    monitor,        \* the exit-monitor goroutine spawned with every child
    waiter,         \* the wait goroutine of every graceful stop
    call,           \* the Start/Restart/Stop call of every caller
    calls,          \* number of calls made so far
    \* ---- FileWatcher (watcher.go:18-31) and its environment
    fwConfig,       \* fw.config, the fields the watcher reads
    fs,             \* the files on disk: content and write generation
    writes,         \* number of file writes still to come
    faults,         \* number of failed file-system calls still to come
    fwState,        \* progress of FileWatcher.Start
    fileHashes,     \* fw.fileHashes
    poller,         \* the watchPathForChanges goroutine of every watch path
    batchChanges,   \* fw.batchChanges
    batchTimer,     \* fw.batchTimer: the instant it fires, or Stopped
    flusher,        \* the processBatchChanges goroutine
    changeChannel,  \* fw.changeChannel
    errorChannel,   \* fw.errorChannel: number of errors queued
    health,         \* the runHealthCheck goroutine and fw.health
    done,           \* fw.done and the progress of FileWatcher.Stop
    \* ---- The launch of the script (manager.go:55-90) and its environment
    script,         \* pm.scriptPath, the configured runner, the installed ones
    runner,         \* what determineRunner returned
    \* ---- LoadConfig (config.go:24-49) and its inputs
    flags,          \* the options given on the command line
    configFile,     \* the configuration file of the project root
    finalConfig     \* what LoadConfig returned

pmVars == <<pmConfig, cmd, mutex, stats, lastRestart, restartCount,
            isRunning, child, monitor, waiter, call, calls>>

fwVars == <<fwConfig, fs, writes, faults, fwState, fileHashes, poller, batchChanges,
            batchTimer, flusher, changeChannel, errorChannel, health, done>>

toolVars == <<script, runner, flags, configFile, finalConfig>>

vars == <<now, pmVars, fwVars, toolVars>>

----------------------------------------------------------------------------
(* Bounds *)

MaxTime == 3        \* the clock of the supervisor stops here
MaxWatchTime == 2   \* the clock of the watcher stops here
MaxCalls == 3       \* Start/Restart/Stop calls per behaviour
PastFailures == 99  \* restarts recorded before the behaviour begins

\* The goroutines that call into the manager.  The orchestrator's event loop
\* is the only one in the tool (main, part_003:368-391); the manager's
\* mutex is there for a program in which a second goroutine calls as well.
Callers == DOMAIN call
EventLoop == {"main"}
TwoGoroutines == {"main", "other"}
Children == 1..MaxCalls
Free == "free"
NoChild == 0

\* The zero time.Time of pm.lastRestart before the first launch: any
\* instant is further from it than every configured duration.
ZeroTime == -100

----------------------------------------------------------------------------
(* ProcessManager *)

\* The configurations explored: MaxRestarts 0 (unlimited), 1 and 2;
\* graceful shutdown on and off; with and without a restart delay;
\* durations in clock units.
PMConfig(maxRestarts, restartDelay, graceful) ==
    [ MaxRestarts |-> maxRestarts,
      ResetRestartsAfter |-> 1,
      RestartDelay |-> restartDelay,
      GracefulShutdown |-> graceful,
      GracefulShutdownTimeout |-> 1 ]

PMConfigs ==
    { PMConfig(0, 1, TRUE), PMConfig(1, 0, FALSE),
      PMConfig(2, 0, TRUE), PMConfig(2, 1, FALSE) }

NewStats ==
    [ TotalRestarts |-> 0, SuccessfulRestarts |-> 0, FailedRestarts |-> 0,
      AverageRestartTime |-> 0, FastestRestart |-> 0, SlowestRestart |-> 0,
      RestartHistory |-> <<>> ]

\* The frame of a call.  timedOut is not a variable of the code: it records
\* that the graceful wait of the call ended by the timeout and the kill.
IdleCall ==
    [ op |-> "none", pc |-> "idle", startTime |-> 0, deadline |-> 0,
      result |-> "none", timedOut |-> FALSE ]

\* A child is alive from its launch until it exits or is killed.
Alive(n) == child[n] = "running"

AliveChildren == { n \in Children : Alive(n) }

\* Restart, manager.go:112: now.Sub(pm.lastRestart) > ResetRestartsAfter
WindowExpired == now - lastRestart > pmConfig.ResetRestartsAfter

\* Mutation of LimitReached: the comparison is off by one.
LimitReached_OffByOne == restartCount > pmConfig.MaxRestarts

\* Restart, manager.go:114: pm.restartCount >= pm.config.MaxRestarts
LimitReached == restartCount >= pmConfig.MaxRestarts

\* Restart, manager.go:110-116: the call is refused by the ceiling
RestartRefused ==
    /\ pmConfig.MaxRestarts > 0
    /\ ~WindowExpired
    /\ LimitReached

\* Mutation of CounterAfterCheck: the counter is decremented, not reset.
CounterAfterCheck_Decrement ==
    IF pmConfig.MaxRestarts > 0 /\ now - lastRestart > pmConfig.ResetRestartsAfter
    THEN IF restartCount > 0 THEN restartCount - 1 ELSE 0
    ELSE restartCount

\* Restart, manager.go:113: the counter after the ceiling check
CounterAfterCheck ==
    IF pmConfig.MaxRestarts > 0 /\ WindowExpired THEN 0 ELSE restartCount

\* Mutation of addToHistory: the oldest entry is never dropped.
addToHistory_NoLimit(st, timestamp, duration, success) ==
    [ st EXCEPT !.RestartHistory =
        Append(@, [ Timestamp |-> timestamp, Success |-> success ]) ]

\* addToHistory, manager.go:299-303
addToHistory(st, timestamp, duration, success) ==
    LET entry == [ Timestamp |-> timestamp, Success |-> success ]
        kept == IF Len(st.RestartHistory) >= 100
                THEN Tail(st.RestartHistory) ELSE st.RestartHistory
    IN [ st EXCEPT !.RestartHistory = Append(kept, entry) ]

\* Mutation of recordRestartSuccess: TotalRestarts is not incremented.
recordRestartSuccess_NoTotal(st, startTime) ==
    addToHistory([ st EXCEPT !.SuccessfulRestarts = @ + 1 ],
                 startTime, now - startTime, TRUE)

\* recordRestartSuccess, manager.go:240-250: the timing aggregates after a
\* successful restart of the given duration; total is TotalRestarts after
\* its increment.  The division of time.Duration values truncates.
TimingStats(st, duration, total) ==
    [ st EXCEPT
        !.FastestRestart = IF duration < @ \/ @ = 0 THEN duration ELSE @,
        !.SlowestRestart = IF duration > @ THEN duration ELSE @,
        !.AverageRestartTime = (@ * (total - 1) + duration) \div total ]

\* recordRestartSuccess, manager.go:232-254
recordRestartSuccess(st, startTime) ==
    addToHistory(TimingStats([ st EXCEPT !.TotalRestarts = @ + 1,
                                         !.SuccessfulRestarts = @ + 1 ],
                             now - startTime, st.TotalRestarts + 1),
                 startTime, now - startTime, TRUE)

\* Mutation of recordRestartFailure: the attempt is counted as a success.
recordRestartFailure_AsSuccess(st, startTime) ==
    addToHistory([ st EXCEPT !.TotalRestarts = @ + 1,
                             !.SuccessfulRestarts = @ + 1 ],
                 startTime, now - startTime, FALSE)

\* recordRestartFailure, manager.go:257-261
recordRestartFailure(st, startTime) ==
    addToHistory([ st EXCEPT !.TotalRestarts = @ + 1,
                             !.FailedRestarts = @ + 1 ],
                 startTime, now - startTime, FALSE)

\* os.Process.Signal / Kill fail with "process already finished" once the
\* child has been waited for (manager.go:199, 212, 222).
SignalFails(n) == n = NoChild \/ child[n] = "reaped"

\* Process.Kill: SIGKILL ends a running child.
Killed(n) == [ child EXCEPT ![n] = IF @ = "running" THEN "exited" ELSE @ ]

\* The frame of a call entering startProcess: the sleep of manager.go:149-151
\* ends at deadline.
EnterStart(c, op, startTime) ==
    [ op |-> op, pc |-> "startProcess", startTime |-> startTime,
      deadline |-> now + pmConfig.RestartDelay, result |-> call[c].result,
      timedOut |-> call[c].timedOut ]

\* The call returns: the deferred pm.mutex.Unlock() runs.
Return(c, res) ==
    /\ call' = [ call EXCEPT ![c] = [ IdleCall EXCEPT !.op = call[c].op,
                                                   !.result = res ] ]
    /\ mutex' = Free

\* Mutation of Lock: the mutex is not waited for.
Lock_NoWait == TRUE

\* pm.mutex.Lock() returns (manager.go:94, 106, 140, 183): the mutex is free
Lock == mutex = Free

\* Mutation of AlreadyRunning: Start never refuses.
AlreadyRunning_Never == FALSE

\* Start, manager.go:97: if pm.isRunning
AlreadyRunning == isRunning

\* Start, manager.go:93-102, up to the call of startProcess
Start(c) ==
    /\ call[c].pc = "idle"
    /\ Lock
    /\ calls < MaxCalls
    /\ calls' = calls + 1
    /\ IF AlreadyRunning
       THEN /\ call' = [ call EXCEPT ![c] = [ IdleCall EXCEPT !.op = "Start",
                                              !.result = "already running" ] ]
            /\ UNCHANGED mutex
       ELSE /\ call' = [ call EXCEPT ![c] = EnterStart(c, "Start", now) ]
            /\ mutex' = c
    /\ UNCHANGED <<now, pmConfig, waiter, cmd, stats, lastRestart, restartCount,
                   isRunning, child, monitor>>
    /\ UNCHANGED <<fwVars, toolVars>>

\* Restart, manager.go:105-126, up to the call of stopProcess / startProcess:
\* what the call does to the manager
RestartCall(c) ==
    /\ call[c].pc = "idle"
    /\ Lock
    /\ calls < MaxCalls
    /\ calls' = calls + 1
    /\ IF RestartRefused
       THEN /\ call' = [ call EXCEPT ![c] = [ IdleCall EXCEPT !.op = "Restart",
                                              !.result = "limit" ] ]
            /\ UNCHANGED <<mutex, restartCount>>
       ELSE /\ restartCount' = CounterAfterCheck
            /\ mutex' = c
            /\ call' = [ call EXCEPT ![c] =
                         IF isRunning
                         THEN [ op |-> "Restart", pc |-> "stopProcess",
                                startTime |-> now, deadline |-> 0,
                                result |-> call[c].result,
                                timedOut |-> FALSE ]
                         ELSE EnterStart(c, "Restart", now) ]
    /\ UNCHANGED <<now, pmConfig, waiter, cmd, stats, lastRestart, isRunning, child,
                   monitor>>

\* Restart, manager.go:105-126, called on its own
Restart(c) ==
    /\ RestartCall(c)
    /\ UNCHANGED <<fwVars, toolVars>>

\* Stop, manager.go:139-144, up to the call of stopProcess
Stop(c) ==
    /\ call[c].pc = "idle"
    /\ Lock
    /\ calls < MaxCalls
    /\ calls' = calls + 1
    /\ mutex' = c
    /\ call' = [ call EXCEPT ![c] = [ op |-> "Stop", pc |-> "stopProcess",
                                      startTime |-> now, deadline |-> 0,
                                      result |-> call[c].result,
                                      timedOut |-> FALSE ] ]
    /\ UNCHANGED <<now, pmConfig, waiter, cmd, stats, lastRestart, restartCount,
                   isRunning, child, monitor>>
    /\ UNCHANGED <<fwVars, toolVars>>

\* What follows a stopProcess that returned nil: Stop returns, Restart goes
\* on to startProcess (manager.go:128, 143).
AfterStopped(c) ==
    IF call[c].op = "Stop"
    THEN Return(c, "ok")
    ELSE /\ call' = [ call EXCEPT ![c] = EnterStart(c, "Restart", @.startTime) ]
         /\ UNCHANGED mutex

\* What follows a stopProcess that returned nil after the timeout of the
\* graceful wait and the kill (manager.go:210-214, 227-228).
AfterTimedOut(c) ==
    IF call[c].op = "Stop"
    THEN Return(c, "ok")
    ELSE /\ call' = [ call EXCEPT ![c] =
                      [ EnterStart(c, "Restart", @.startTime)
                          EXCEPT !.timedOut = TRUE ] ]
         /\ UNCHANGED mutex

\* What follows a stopProcess that returned an error: Stop returns it,
\* Restart returns "failed to stop process" (manager.go:123-125, 143).
AfterStopFailed(c) == Return(c, "stop failed")

\* stopProcess, manager.go:192-207 and 220-229: the early return, the
\* interrupt signal of a graceful stop, the immediate kill otherwise
stopProcess(c) ==
    /\ call[c].pc = "stopProcess"
    /\ IF ~isRunning
       THEN /\ AfterStopped(c)
            /\ UNCHANGED <<isRunning, child, waiter>>
       ELSE IF pmConfig.GracefulShutdown
       THEN IF SignalFails(cmd)
            THEN /\ AfterStopFailed(c)
                 /\ UNCHANGED <<isRunning, child, waiter>>
            ELSE /\ call' = [ call EXCEPT ![c] =
                              [ @ EXCEPT !.pc = "gracefulWait",
                                !.deadline = now + pmConfig.GracefulShutdownTimeout ] ]
                 /\ waiter' = [ waiter EXCEPT ![cmd] = "waiting" ]
                 /\ UNCHANGED <<mutex, isRunning, child>>
       ELSE IF SignalFails(cmd)
            THEN /\ AfterStopFailed(c)
                 /\ UNCHANGED <<isRunning, child, waiter>>
            ELSE /\ child' = Killed(cmd)
                 /\ isRunning' = FALSE
                 /\ AfterStopped(c)
                 /\ UNCHANGED waiter
    /\ UNCHANGED <<now, pmConfig, cmd, stats, lastRestart, restartCount,
                   monitor, calls>>
    /\ UNCHANGED <<fwVars, toolVars>>

\* Mutation of TimeoutElapsed: the kill does not wait for the timeout.
TimeoutElapsed_AtOnce(c) == TRUE

\* stopProcess, manager.go:210: the channel of time.After delivers
TimeoutElapsed(c) == now >= call[c].deadline

\* stopProcess, manager.go:210-214 and 227: the timeout of the graceful
\* wait, then the kill
gracefulTimeout(c) ==
    /\ call[c].pc = "gracefulWait"
    /\ TimeoutElapsed(c)
    /\ IF SignalFails(cmd)
       THEN /\ AfterStopFailed(c)
            /\ UNCHANGED <<isRunning, child>>
       ELSE /\ child' = Killed(cmd)
            /\ isRunning' = FALSE
            /\ AfterTimedOut(c)
    /\ waiter' = [ waiter EXCEPT ![cmd] = "orphaned" ]
    /\ UNCHANGED <<now, pmConfig, cmd, stats, lastRestart, restartCount,
                   monitor, calls>>
    /\ UNCHANGED <<fwVars, toolVars>>

\* stopProcess, manager.go:204-207: the wait goroutine of a graceful stop
\* whose stopProcess has returned on the timeout.  Its pm.cmd.Wait() returns
\* once the child has ended, and it then sends the result on the unbuffered
\* channel done, which nobody receives from any more.
waiterReturns(n) ==
    /\ waiter[n] = "orphaned"
    /\ child[n] # "running"
    /\ waiter' = [ waiter EXCEPT ![n] = "blocked" ]
    /\ child' = [ child EXCEPT ![n] = "reaped" ]
    /\ UNCHANGED <<now, pmConfig, cmd, mutex, stats, lastRestart,
                   restartCount, isRunning, monitor, call, calls>>
    /\ UNCHANGED <<fwVars, toolVars>>

\* stopProcess, manager.go:205-207 and 215-219, 227: pm.cmd.Wait() of the
\* wait goroutine returns and its result is received.  Wait returns an
\* error when the monitor goroutine has already waited for the child, or
\* when the child did not exit with status 0; nil otherwise.
gracefulDone(c) ==
    /\ call[c].pc = "gracefulWait"
    /\ child[cmd] # "running"
    /\ \E err \in IF child[cmd] = "reaped" THEN {TRUE} ELSE BOOLEAN :
         IF err
         THEN /\ AfterStopFailed(c)
              /\ UNCHANGED isRunning
         ELSE /\ isRunning' = FALSE
              /\ AfterStopped(c)
    /\ child' = [ child EXCEPT ![cmd] = "reaped" ]
    /\ waiter' = [ waiter EXCEPT ![cmd] = "none" ]
    /\ UNCHANGED <<now, pmConfig, cmd, stats, lastRestart, restartCount,
                   monitor, calls>>
    /\ UNCHANGED <<fwVars, toolVars>>

\* Mutation of CountedLaunch: the launch of a Start is not counted.
CountedLaunch_RestartOnly(op) == IF op = "Start" THEN 0 ELSE 1

\* startProcess, manager.go:177: pm.restartCount++ for every launch,
\* whichever of Start and Restart called startProcess
CountedLaunch(op) == 1

\* The first child id not yet used.
NextChild == CHOOSE n \in Children : child[n] = "none" /\
                 \A m \in Children : m < n => child[m] # "none"

\* startProcess, manager.go:147-189, after the sleep: the runner is resolved
\* and the child launched, or one of the two fails; then the caller's
\* bookkeeping (manager.go:101, 129-135).
\*   outcome "ok":        the child runs
\*   outcome "no runner": determineRunner failed, pm.cmd untouched
\*   outcome "no start":  cmd.Start failed, pm.cmd is the unstarted command
startProcess(c) ==
    /\ call[c].pc = "startProcess"
    /\ now >= call[c].deadline
    /\ \E outcome \in {"ok", "no runner", "no start"} :
         /\ IF outcome = "ok"
            THEN LET n == NextChild IN
                 /\ cmd' = n
                 /\ child' = [ child EXCEPT ![n] = "running" ]
                 /\ isRunning' = TRUE
                 /\ lastRestart' = now
                 /\ restartCount' = restartCount + CountedLaunch(call[c].op)
                 /\ monitor' = [ monitor EXCEPT ![n] =
                                 [ pc |-> "spawned", target |-> NoChild ] ]
            ELSE /\ cmd' = IF outcome = "no start" THEN NoChild ELSE cmd
                 /\ UNCHANGED <<child, isRunning, lastRestart, restartCount,
                                monitor>>
         /\ stats' = IF call[c].op = "Restart"
                     THEN IF outcome = "ok"
                          THEN recordRestartSuccess(stats, call[c].startTime)
                          ELSE recordRestartFailure(stats, call[c].startTime)
                     ELSE stats
         /\ Return(c, IF outcome = "ok" THEN "ok" ELSE "start failed")
    /\ UNCHANGED <<now, pmConfig, waiter, calls>>
    /\ UNCHANGED <<fwVars, toolVars>>

\* The monitor goroutine, manager.go:181-182: it starts running and
\* evaluates pm.cmd (outside the mutex) to call Wait on it.
monitorBegin(m) ==
    /\ monitor[m].pc = "spawned"
    /\ monitor' = [ monitor EXCEPT ![m] = [ pc |-> "waiting", target |-> cmd ] ]
    /\ UNCHANGED <<now, pmConfig, waiter, cmd, mutex, stats, lastRestart,
                   restartCount, isRunning, child, call, calls>>
    /\ UNCHANGED <<fwVars, toolVars>>

\* The monitor goroutine, manager.go:182: pm.cmd.Wait() returns once the
\* child has exited (at once, with an error, for an unstarted command).
monitorWait(m) ==
    /\ monitor[m].pc = "waiting"
    /\ LET t == monitor[m].target IN
       /\ t # NoChild => child[t] # "running"
       /\ child' = IF t = NoChild THEN child
                   ELSE [ child EXCEPT ![t] = "reaped" ]
    /\ monitor' = [ monitor EXCEPT ![m].pc = "locking" ]
    /\ UNCHANGED <<now, pmConfig, waiter, cmd, mutex, stats, lastRestart,
                   restartCount, isRunning, call, calls>>
    /\ UNCHANGED <<fwVars, toolVars>>

\* The monitor goroutine, manager.go:183-185
monitorClear(m) ==
    /\ monitor[m].pc = "locking"
    /\ Lock
    /\ isRunning' = FALSE
    /\ monitor' = [ monitor EXCEPT ![m] = [ pc |-> "none", target |-> NoChild ] ]
    /\ UNCHANGED <<now, pmConfig, waiter, cmd, mutex, stats, lastRestart,
                   restartCount, child, call, calls>>
    /\ UNCHANGED <<fwVars, toolVars>>

\* The child process ends on its own (normal exit, crash, or its reaction
\* to the interrupt signal).
childExit(n) ==
    /\ child[n] = "running"
    /\ child' = [ child EXCEPT ![n] = "exited" ]
    /\ UNCHANGED <<now, pmConfig, waiter, cmd, mutex, stats, lastRestart,
                   restartCount, isRunning, monitor, call, calls>>
    /\ UNCHANGED <<fwVars, toolVars>>

----------------------------------------------------------------------------
(* Paths.  A path is the sequence of its segments; a segment (a file or   *)
(* directory name) is the sequence of the pieces its dots separate, so    *)
(* ".env.ts" is <<"", "env", "ts">> and "node_modules" is                  *)
(* <<"node_modules">>.                                                     *)

Proj == << <<"proj">> >>
ProjSrc == << <<"proj">>, <<"src">> >>
DotCache == << <<"", "cache">> >>

AppJs == << <<"proj">>, <<"src">>, <<"app", "js">> >>
ReadmeMd == << <<"proj">>, <<"README", "md">> >>
DotEnv == << <<"proj">>, <<"", "env">> >>
DotEnvTs == << <<"proj">>, <<"", "env", "ts">> >>
VendoredJs == << <<"proj">>, <<"node_modules">>, <<"foo">>, <<"bar", "js">> >>
NestedVendoredJs ==
    << <<"proj">>, <<"src">>, <<"a">>, <<"node_modules">>, <<"x", "js">> >>
CachedJs == << <<"", "cache">>, <<"x", "js">> >>

\* The files a behaviour may have on disk, in the lexical order in which
\* filepath.Walk visits them.
AllFiles ==
    << CachedJs, DotEnv, DotEnvTs, ReadmeMd, VendoredJs, AppJs,
       NestedVendoredJs >>

\* filepath.Base
Base(path) == path[Len(path)]

\* filepath.Base(path)[0] == '.', watcher.go:97
StartsWithDot(name) == name[1] = ""

\* filepath.Ext: the suffix of the name from its last dot, "" without a dot;
\* here the piece after the last dot, NoExt without a dot.  The extension
\* of ".env" is ".env".
NoExt == "(none)"
Ext(name) == IF Len(name) >= 2 THEN name[Len(name)] ELSE NoExt

\* A segment of a glob pattern matches a name: "*" matches every name,
\* "*.x" every name that ends in ".x", anything else only itself.
SegmentMatch(pat, name) ==
    \/ pat = <<"*">>
    \/ Len(pat) = 2 /\ pat[1] = "*" /\ Len(name) >= 2 /\ name[Len(name)] = pat[2]
    \/ pat = name

\* filepath.Match(pattern, path), watcher.go:147: the pattern has to match
\* the whole path, and no wildcard matches a separator.
Match(pattern, path) ==
    /\ Len(pattern) = Len(path)
    /\ \A i \in 1..Len(path) : SegmentMatch(pattern[i], path[i])

\* The path lies under the root (or is the root).
Under(root, path) ==
    /\ Len(root) <= Len(path)
    /\ \A i \in 1..Len(root) : path[i] = root[i]

RECURSIVE SelectSeqOf(_, _)
\* The members of a sequence that belong to a set, in order.
SelectSeqOf(seq, set) ==
    IF seq = <<>> THEN <<>>
    ELSE IF Head(seq) \in set
         THEN <<Head(seq)>> \o SelectSeqOf(Tail(seq), set)
         ELSE SelectSeqOf(Tail(seq), set)

\* filepath.Walk(root): the files under the root, in lexical order.
\* (Walk also visits the directories; the callbacks of watcher.go:103-111
\* and 139-166 change nothing for a directory.)
Walk(root) == SelectSeqOf(AllFiles, { f \in DOMAIN fs : Under(root, f) })

----------------------------------------------------------------------------
(* The choice of the runner: determineRunner, manager.go:55-90 *)

\* The names a script may have: the extension is what determineRunner reads.
ScriptNames ==
    { <<"server", "js">>, <<"server", "jsx">>, <<"server", "ts">>,
      <<"server", "tsx">>, <<"server", "mjs">>, <<"server">> }

\* The values of typescriptRunner in the configuration ("" when not set).
NotSet == ""
RunnerNames == {"tsx", "ts-node"}

\* A runner installed in node_modules/.bin of the project root ("local") or
\* found on the PATH ("global").
Installation(place, name) == [ place |-> place, name |-> name ]

Installations ==
    { Installation(place, name) : place \in {"local", "global"},
                                  name \in RunnerNames }

\* The result of determineRunner: the runner (its name and where it was
\* found; node is left to the PATH), the arguments before the script path,
\* the error.
Chosen(place, name, args) ==
    [ place |-> place, name |-> name, args |-> args, err |-> "none" ]

RunnerError(err) ==
    [ place |-> "none", name |-> "none", args |-> <<>>, err |-> err ]

\* No call of determineRunner has been made.
NoRunner == RunnerError("not called")

\* determineRunner, manager.go:55-90, for a script of the given name with
\* the given installations: os.Stat of node_modules/.bin/<name> succeeds for
\* a local installation, exec.LookPath for a global one.
determineRunner(name, installed) ==
    IF Ext(name) \in {"js", "jsx"}
    THEN Chosen("global", "node", <<>>)
    ELSE IF Ext(name) \in {"ts", "tsx"}
    THEN IF Installation("local", "tsx") \in installed
         THEN Chosen("local", "tsx", <<>>)
         ELSE IF Installation("local", "ts-node") \in installed
         THEN Chosen("local", "ts-node", <<"--esm">>)
         ELSE IF Installation("global", "tsx") \in installed
         THEN Chosen("global", "tsx", <<>>)
         ELSE IF Installation("global", "ts-node") \in installed
         THEN Chosen("global", "ts-node", <<"--esm">>)
         ELSE RunnerError("no TypeScript runner found")
    ELSE RunnerError("unsupported file extension")

\* startProcess, manager.go:159: the runner is determined for the script
resolveRunner ==
    /\ runner = NoRunner
    /\ runner' = determineRunner(script.name, script.installed)
    /\ UNCHANGED <<now, pmVars, fwVars, script, flags, configFile, finalConfig>>

\* The scripts, configurations and installations explored.
Scripts ==
    [ name : ScriptNames,
      typescriptRunner : {NotSet} \cup RunnerNames,
      installed : SUBSET Installations ]

\* No script is being launched: the state of the runner choice in the
\* specifications that are about something else.
NoLaunch ==
    /\ script = [ name |-> <<"server", "js">>, typescriptRunner |-> NotSet,
                  installed |-> {} ]
    /\ runner = NoRunner

----------------------------------------------------------------------------
(* The configuration: LoadConfig and mergeConfigs, config.go:24-183, and   *)
(* the command line of main, part_003:19-93.  Four options stand for the   *)
(* ways mergeConfigs treats an option: an integer with a non-zero default  *)
(* (BatchTimeout), an integer whose default is zero (MaxRestarts), a       *)
(* boolean (GracefulShutdown) and a list (Extensions).                     *)

Options == {"BatchTimeout", "MaxRestarts", "GracefulShutdown", "Extensions"}

\* The defaults of the flags, part_003:23-34
Defaults ==
    [ BatchTimeout |-> 300, MaxRestarts |-> 0, GracefulShutdown |-> TRUE,
      Extensions |-> <<"js", "ts", "jsx", "tsx">> ]

\* The zero values of Go for the types of the options.
ZeroValues ==
    [ BatchTimeout |-> 0, MaxRestarts |-> 0, GracefulShutdown |-> FALSE,
      Extensions |-> <<>> ]

\* An option given (on the command line, or as a key of the file) with a
\* value, and an option that is not given.
Given(v) == [ set |-> TRUE, val |-> v ]
NotGiven(opt) == [ set |-> FALSE, val |-> ZeroValues[opt] ]

NothingGiven == [ opt \in Options |-> NotGiven(opt) ]

\* The command lines explored.
CommandLines ==
    [ BatchTimeout : {NotGiven("BatchTimeout"), Given(100)},
      MaxRestarts : {NotGiven("MaxRestarts"), Given(0), Given(3)},
      GracefulShutdown : {NotGiven("GracefulShutdown"), Given(TRUE), Given(FALSE)},
      Extensions : {NotGiven("Extensions"), Given(<<"ts">>)} ]

\* The configuration files explored: none in the project root, one that is
\* not valid JSON, and the valid ones.
ConfigFiles ==
    { [ kind |-> "none", keys |-> NothingGiven ],
      [ kind |-> "malformed", keys |-> NothingGiven ] }
    \cup
    [ kind : {"valid"},
      keys : [ BatchTimeout : {NotGiven("BatchTimeout"), Given(500)},
               MaxRestarts : {NotGiven("MaxRestarts"), Given(0), Given(5)},
               GracefulShutdown : {NotGiven("GracefulShutdown"), Given(TRUE),
                                   Given(FALSE)},
               Extensions : {NotGiven("Extensions"), Given(<<"js">>)} ] ]

\* flag.Parse and main, part_003:48 and 67-93: cliConfig holds the value of
\* every flag, which is its default when the flag is not given
cliConfigOf(given) ==
    [ opt \in Options |->
        IF given[opt].set THEN given[opt].val ELSE Defaults[opt] ]

\* loadConfigFile, config.go:76-79: json.Unmarshal leaves the field of a
\* key that is missing at its zero value
Unmarshal(keys) == [ opt \in Options |-> keys[opt].val ]

\* mergeConfigs, config.go:106-183
mergeConfigs(fileConfig, cliConfig) ==
    [ BatchTimeout |-> IF cliConfig.BatchTimeout # 0
                       THEN cliConfig.BatchTimeout ELSE fileConfig.BatchTimeout,
      MaxRestarts |-> IF cliConfig.MaxRestarts # 0
                      THEN cliConfig.MaxRestarts ELSE fileConfig.MaxRestarts,
      GracefulShutdown |-> fileConfig.GracefulShutdown,
      Extensions |-> IF Len(cliConfig.Extensions) > 0
                     THEN cliConfig.Extensions ELSE fileConfig.Extensions ]

\* What LoadConfig returns: a configuration or an error.
Loaded(config) == [ done |-> TRUE, err |-> FALSE, config |-> config ]
LoadError == [ done |-> TRUE, err |-> TRUE, config |-> ZeroValues ]
NotLoaded == [ done |-> FALSE, err |-> FALSE, config |-> ZeroValues ]

\* LoadConfig, config.go:24-49 (no option explored names an ignore file)
LoadConfig(cliConfig, file) ==
    IF file.kind = "malformed" THEN LoadError
    ELSE IF file.kind = "none" THEN Loaded(cliConfig)
    ELSE Loaded(mergeConfigs(Unmarshal(file.keys), cliConfig))

\* main, part_003:67-96: the command line is parsed and LoadConfig called
loadConfig ==
    /\ finalConfig = NotLoaded
    /\ finalConfig' = LoadConfig(cliConfigOf(flags), configFile)
    /\ UNCHANGED <<now, pmVars, fwVars, script, runner, flags, configFile>>

\* No configuration is being loaded: the state of LoadConfig in the
\* specifications that are about something else.
NoLoad ==
    /\ flags = NothingGiven
    /\ configFile = [ kind |-> "none", keys |-> NothingGiven ]
    /\ finalConfig = NotLoaded

----------------------------------------------------------------------------
(* FileWatcher *)

MaxWrites == 2      \* file writes per behaviour
MaxFaults == 1      \* failed file-system calls (stat, open, read) per behaviour

\* The outcomes a file-system call can have: TRUE (success) and, while the
\* behaviour has faults left, FALSE (failure).
Outcomes == IF faults > 0 THEN BOOLEAN ELSE {TRUE}

\* The failures still to come after a call with this outcome.
Counted(ok) == IF ok THEN faults ELSE faults - 1

\* File contents: content c is c MiB long, so 0 is the empty file.
Contents == 0..2
MiB == 1048576
SizeOf(c) == c * MiB

\* Hashes: the empty string calculateHash returns on an error, and the MD5
\* digest of a content (one digest per content).
NoHash == <<>>
MD5(c) == <<"md5", c>>

Stopped == -1

\* The channel capacities of NewFileWatcher, watcher.go:39-40
ChannelCap == 100

\* The defaults of the command line (part_003:283-309), durations in clock
\* units: PollingInterval 100ms is 1, BatchTimeout 300ms is 2 (rounded
\* down to keep the flush within the explored time).
DefaultFWConfig ==
    [ Enabled |-> TRUE,
      WatchPaths |-> <<Proj>>,
      IgnorePaths |-> << << <<"node_modules">> >> >>,
      Extensions |-> <<"js", "ts", "jsx", "tsx">>,
      PollingInterval |-> 1,
      BatchChanges |-> TRUE,
      BatchTimeout |-> 2,
      EnableFileHashing |-> TRUE,
      WatchDotFiles |-> FALSE,
      MaxFileSize |-> 1,
      ExcludeEmptyFiles |-> TRUE,
      HealthCheck |-> FALSE,
      HealthCheckInterval |-> 2,
      MemoryLimit |-> 500 ]

\* The configurations explored.
FWConfigs ==
    { DefaultFWConfig,
      [ DefaultFWConfig EXCEPT !.BatchChanges = FALSE ],
      [ DefaultFWConfig EXCEPT !.WatchPaths = <<DotCache>> ],
      [ DefaultFWConfig EXCEPT !.EnableFileHashing = FALSE ],
      [ DefaultFWConfig EXCEPT !.HealthCheck = TRUE, !.BatchChanges = FALSE,
                               !.ExcludeEmptyFiles = FALSE, !.MaxFileSize = 0,
                               !.IgnorePaths = << << <<"proj">>, <<"*", "md">> >> >> ],
      [ DefaultFWConfig EXCEPT !.Enabled = FALSE ] }

\* Two watch paths, the second inside the first.
TwoRootsFWConfig == [ DefaultFWConfig EXCEPT !.WatchPaths = <<Proj, ProjSrc>> ]

Roots == 1..2

\* Progress of FileWatcher.Start, watcher.go:54-78: not called yet, in the
\* loop over the watch paths at the given index, returned nil ("running")
\* or returned an error ("failed").
FWState(phase, index) == [ phase |-> phase, index |-> index ]

\* A FileChangeEvent (types.go:161-172), the fields the watcher fills in
\* and reads.  Ver is not a field of the event: it records which write
\* generation of the file hasFileChanged hashed when it reported the change
\* (the poller keeps it in ver from hashFile on).
NoEvent ==
    [ FullPath |-> <<>>, Filename |-> <<>>, Timestamp |-> 0, Size |-> 0,
      Hash |-> NoHash, PreviousHash |-> NoHash, IsDirectory |-> FALSE,
      Ver |-> 0 ]

IdlePoller ==
    [ pc |-> "idle", nextTick |-> 0, queue |-> <<>>, path |-> <<>>,
      size |-> 0, newHash |-> NoHash, ver |-> 0, event |-> NoEvent ]

OffPoller == [ IdlePoller EXCEPT !.pc = "off" ]

OffFlusher == [ pc |-> "off", timestamp |-> 0, pending |-> <<>> ]

\* fw.done, watcher.go:41, and the Stop call that closes it: not called,
\* in its graceful wait until the deadline, returned.
Open == [ state |-> "open", deadline |-> 0 ]

\* NewFileWatcher, watcher.go:45-49
NewHealth ==
    [ running |-> FALSE, nextTick |-> 0, IsHealthy |-> TRUE, Errors |-> 0 ]

\* calculateHash, watcher.go:191-204: the digest of the file's bytes, or ""
\* when the file cannot be opened or read.
calculateHash(path, readable) ==
    IF readable THEN MD5(fs[path].content) ELSE NoHash

\* calculateAndStoreHash over the files of a walk, watcher.go:103-111 and
\* 207-212: readable is the set of files that can be read.
RECURSIVE StoreHashes(_, _, _)
StoreHashes(hashes, paths, readable) ==
    IF paths = <<>> THEN hashes
    ELSE StoreHashes(
           [ hashes EXCEPT ![Head(paths)] =
               calculateHash(Head(paths), Head(paths) \in readable) ],
           Tail(paths), readable)

\* Start, watcher.go:54-68: the enabled check, the health goroutine, the
\* batch timer and the batch goroutine
fwStart ==
    /\ fwState.phase = "new"
    /\ IF ~fwConfig.Enabled
       THEN /\ fwState' = FWState("failed", 0)
            /\ UNCHANGED <<health, batchTimer, flusher>>
       ELSE /\ fwState' = FWState("watchPath", 1)
            /\ health' = [ health EXCEPT !.running = fwConfig.HealthCheck,
                                          !.nextTick = now + fwConfig.HealthCheckInterval ]
            /\ IF fwConfig.BatchChanges
               THEN /\ batchTimer' = now + fwConfig.BatchTimeout
                    /\ flusher' = [ flusher EXCEPT !.pc = "idle" ]
               ELSE UNCHANGED <<batchTimer, flusher>>
    /\ UNCHANGED <<now, pmVars, toolVars, fwConfig, done, fs, writes, faults, fileHashes,
                   poller, batchChanges, changeChannel, errorChannel>>

\* Start, watcher.go:71-77, and watchPath, watcher.go:96-120, for the i-th
\* watch path: the dot-file check, the initial hashing walk (which may
\* fail and abort Start), the poller goroutine
watchPath(i) ==
    /\ fwState = FWState("watchPath", i)
    /\ LET root == fwConfig.WatchPaths[i]
           next == IF i = Len(fwConfig.WatchPaths)
                   THEN FWState("running", 0) ELSE FWState("watchPath", i + 1)
       IN
       IF ~fwConfig.WatchDotFiles /\ StartsWithDot(Base(root))
       THEN /\ fwState' = next
            /\ UNCHANGED <<fileHashes, poller, faults>>
       ELSE IF ~fwConfig.EnableFileHashing
       THEN /\ fwState' = next
            /\ poller' = [ poller EXCEPT ![i] =
                           [ IdlePoller EXCEPT !.nextTick = now + fwConfig.PollingInterval ] ]
            /\ UNCHANGED <<fileHashes, faults>>
       ELSE \E walkOK \in Outcomes :
              IF ~walkOK
              THEN /\ fwState' = FWState("failed", i)
                   /\ faults' = Counted(FALSE)
                   /\ UNCHANGED <<fileHashes, poller>>
              ELSE /\ fwState' = next
                   /\ \E unreadable \in { f \in DOMAIN fs : Under(root, f) } \cup {<<>>} :
                        /\ unreadable # <<>> => FALSE \in Outcomes
                        /\ faults' = Counted(unreadable = <<>>)
                        /\ fileHashes' = StoreHashes(fileHashes, Walk(root),
                                                     DOMAIN fs \ {unreadable})
                   /\ poller' = [ poller EXCEPT ![i] =
                                  [ IdlePoller EXCEPT !.nextTick = now + fwConfig.PollingInterval ] ]
    /\ UNCHANGED <<now, pmVars, toolVars, fwConfig, done, fs, writes, batchChanges,
                   batchTimer, flusher, changeChannel, errorChannel, health>>

\* watchPathForChanges, watcher.go:127-133: the ticker fires and
\* checkForChanges starts its walk.  A tick that came due while the poller
\* was busy is delivered at once.
pollTick(i) ==
    /\ poller[i].pc = "idle"
    /\ now >= poller[i].nextTick
    /\ poller' = [ poller EXCEPT ![i] =
                   [ @ EXCEPT !.pc = "walk",
                              !.queue = Walk(fwConfig.WatchPaths[i]),
                              !.nextTick = IF @ + fwConfig.PollingInterval > now
                                           THEN @ + fwConfig.PollingInterval
                                           ELSE now ] ]
    /\ UNCHANGED <<now, pmVars, toolVars, fwConfig, done, fs, writes, faults, fwState, fileHashes,
                   batchChanges, batchTimer, flusher, changeChannel,
                   errorChannel, health>>

\* checkForChanges, watcher.go:146-150: the path matches an ignore pattern
Ignored(path) ==
    \E k \in 1..Len(fwConfig.IgnorePaths) : Match(fwConfig.IgnorePaths[k], path)

\* checkForChanges, watcher.go:153: the file is over the size limit
TooLarge(size) ==
    fwConfig.MaxFileSize > 0 /\ size > fwConfig.MaxFileSize * 1024 * 1024

\* Mutation of HashingEnabled: files are hashed whatever the option says.
HashingEnabled_Always == TRUE

\* checkForChanges, watcher.go:158: if fw.config.EnableFileHashing
HashingEnabled == fwConfig.EnableFileHashing

\* checkForChanges, watcher.go:139-166: the walk callback for the next file,
\* up to the call of hasFileChanged; the end of the walk
visit(i) ==
    /\ poller[i].pc = "walk"
    /\ IF poller[i].queue = <<>>
       THEN /\ poller' = [ poller EXCEPT ![i] =
                           [ IdlePoller EXCEPT !.nextTick = poller[i].nextTick ] ]
            /\ UNCHANGED <<errorChannel, faults>>
       ELSE LET f == Head(poller[i].queue)
                size == SizeOf(fs[f].content)
                skip == [ poller EXCEPT ![i].queue = Tail(@) ]
            IN \E statOK \in Outcomes :
                 /\ faults' = Counted(statOK)
                 /\ IF ~statOK
                    THEN /\ errorChannel < ChannelCap
                         /\ errorChannel' = errorChannel + 1
                         /\ poller' = skip
                    ELSE /\ UNCHANGED errorChannel
                         /\ poller' =
                              IF Ignored(f) \/ TooLarge(size)
                                 \/ ~HashingEnabled
                              THEN skip
                              ELSE [ poller EXCEPT ![i] =
                                     [ @ EXCEPT !.pc = "calculateHash",
                                                !.queue = Tail(@),
                                                !.path = f, !.size = size ] ]
    /\ UNCHANGED <<now, pmVars, toolVars, fwConfig, done, fs, writes, fwState, fileHashes,
                   batchChanges, batchTimer, flusher, changeChannel, health>>

\* hasFileChanged, watcher.go:175: the new hash is computed
hashFile(i) ==
    /\ poller[i].pc = "calculateHash"
    /\ \E readable \in Outcomes :
         /\ faults' = Counted(readable)
         /\ poller' = [ poller EXCEPT ![i] =
                        [ @ EXCEPT !.pc = "compare",
                                   !.newHash = calculateHash(poller[i].path, readable),
                                   !.ver = fs[poller[i].path].ver ] ]
    /\ UNCHANGED <<now, pmVars, toolVars, fwConfig, done, fs, writes, fwState, fileHashes,
                   batchChanges, batchTimer, flusher, changeChannel,
                   errorChannel, health>>

\* hasFileChanged, watcher.go:176-180 and 187: the stored hash is read under
\* the read lock and compared
compareHash(i) ==
    /\ poller[i].pc = "compare"
    /\ poller' = [ poller EXCEPT ![i] =
                   IF @.newHash # fileHashes[@.path]
                   THEN [ @ EXCEPT !.pc = "store" ]
                   ELSE [ IdlePoller EXCEPT !.pc = "walk",
                                            !.nextTick = poller[i].nextTick,
                                            !.queue = poller[i].queue ] ]
    /\ UNCHANGED <<now, pmVars, toolVars, fwConfig, done, fs, writes, faults, fwState, fileHashes,
                   batchChanges, batchTimer, flusher, changeChannel,
                   errorChannel, health>>

\* hasFileChanged, watcher.go:181-184: the new hash is stored under the
\* write lock
storeHash(i) ==
    /\ poller[i].pc = "store"
    /\ fileHashes' = [ fileHashes EXCEPT ![poller[i].path] = poller[i].newHash ]
    /\ poller' = [ poller EXCEPT ![i].pc = "createChangeEvent" ]
    /\ UNCHANGED <<now, pmVars, toolVars, fwConfig, done, fs, writes, faults, fwState, batchChanges,
                   batchTimer, flusher, changeChannel, errorChannel, health>>

\* createChangeEvent, watcher.go:215-238
createChangeEvent(i) ==
    /\ poller[i].pc = "createChangeEvent"
    /\ \E readable \in Outcomes :
         LET path == poller[i].path IN
         /\ faults' = Counted(readable)
         /\ poller' = [ poller EXCEPT ![i] =
                        [ @ EXCEPT !.pc = "handleChange",
                                   !.event =
                                     [ FullPath |-> path,
                                       Filename |-> Base(path),
                                       Timestamp |-> now,
                                       Size |-> poller[i].size,
                                       Hash |-> calculateHash(path, readable),
                                       PreviousHash |-> fileHashes[path],
                                       IsDirectory |-> FALSE,
                                       Ver |-> poller[i].ver ] ] ]
    /\ UNCHANGED <<now, pmVars, toolVars, fwConfig, done, fs, writes, fwState, fileHashes,
                   batchChanges, batchTimer, flusher, changeChannel,
                   errorChannel, health>>

\* Mutation of BatchMutexFree: the batch goroutine never releases the mutex.
BatchMutexFree_NeverReleased == flusher.pc = "off"

\* fw.batchMutex is held by the batch goroutine for the whole flush,
\* watcher.go:258-268.
BatchMutexFree == flusher.pc # "sending"

\* Mutation of handleChange: the event is batched whatever BatchChanges says.
handleChange_AlwaysBatch(i) ==
    /\ poller[i].pc = "handleChange"
    /\ BatchMutexFree
    /\ batchChanges' = Append(batchChanges, poller[i].event)
    /\ poller' = [ poller EXCEPT ![i] =
                   [ IdlePoller EXCEPT !.pc = "walk",
                                       !.nextTick = poller[i].nextTick,
                                       !.queue = poller[i].queue ] ]
    /\ UNCHANGED <<now, pmVars, toolVars, fwConfig, done, fs, writes, faults, fwState,
                   fileHashes, batchTimer, flusher, changeChannel,
                   errorChannel, health>>

\* handleChange, watcher.go:241-249
handleChange(i) ==
    /\ poller[i].pc = "handleChange"
    /\ IF fwConfig.BatchChanges
       THEN /\ BatchMutexFree
            /\ batchChanges' = Append(batchChanges, poller[i].event)
            /\ UNCHANGED changeChannel
       ELSE /\ Len(changeChannel) < ChannelCap
            /\ changeChannel' = Append(changeChannel, poller[i].event)
            /\ UNCHANGED batchChanges
    /\ poller' = [ poller EXCEPT ![i] =
                   [ IdlePoller EXCEPT !.pc = "walk",
                                       !.nextTick = poller[i].nextTick,
                                       !.queue = poller[i].queue ] ]
    /\ UNCHANGED <<now, pmVars, toolVars, fwConfig, done, fs, writes, faults, fwState, fileHashes,
                   batchTimer, flusher, errorChannel, health>>

\* Mutation of KeepChange: dot-files are dropped as well.
KeepChange_NoDotFiles(change) ==
    /\ ~StartsWithDot(change.Filename)
    /\ ~(fwConfig.ExcludeEmptyFiles /\ change.Size = 0 /\ ~change.IsDirectory)
    /\ ~(fwConfig.MaxFileSize > 0
         /\ change.Size > fwConfig.MaxFileSize * 1024 * 1024)
    /\ \E k \in 1..Len(fwConfig.Extensions) :
         Ext(change.Filename) = fwConfig.Extensions[k]

\* Mutation of KeepChange: empty files are not excluded.
KeepChange_KeepEmpty(change) ==
    /\ ~(fwConfig.MaxFileSize > 0
         /\ change.Size > fwConfig.MaxFileSize * 1024 * 1024)
    /\ \E k \in 1..Len(fwConfig.Extensions) :
         Ext(change.Filename) = fwConfig.Extensions[k]

\* processBatchEvent, watcher.go:283-303: the change passes the filters
KeepChange(change) ==
    /\ ~(fwConfig.ExcludeEmptyFiles /\ change.Size = 0 /\ ~change.IsDirectory)
    /\ ~(fwConfig.MaxFileSize > 0
         /\ change.Size > fwConfig.MaxFileSize * 1024 * 1024)
    /\ \E k \in 1..Len(fwConfig.Extensions) :
         Ext(change.Filename) = fwConfig.Extensions[k]

RECURSIVE filteredChanges(_)
\* processBatchEvent, watcher.go:280-306
filteredChanges(changes) ==
    IF changes = <<>> THEN <<>>
    ELSE IF KeepChange(Head(changes))
         THEN <<Head(changes)>> \o filteredChanges(Tail(changes))
         ELSE filteredChanges(Tail(changes))

\* processBatchChanges, watcher.go:257-269, with processBatchEvent up to its
\* first send: the batch timer fires, the batch is taken and filtered; with
\* nothing to send the timer is reset at once
processBatchChanges ==
    /\ flusher.pc = "idle"
    /\ batchTimer # Stopped
    /\ now >= batchTimer
    /\ IF Len(batchChanges) > 0 /\ filteredChanges(batchChanges) # <<>>
       THEN /\ flusher' = [ pc |-> "sending", timestamp |-> now,
                            pending |-> filteredChanges(batchChanges) ]
            /\ batchTimer' = Stopped
       ELSE /\ batchTimer' = now + fwConfig.BatchTimeout
            /\ UNCHANGED flusher
    /\ batchChanges' = <<>>
    /\ UNCHANGED <<now, pmVars, toolVars, fwConfig, done, fs, writes, faults, fwState, fileHashes,
                   poller, changeChannel, errorChannel, health>>

\* processBatchEvent, watcher.go:313-317: the next change of the batch is
\* sent; after the last one the mutex is released and the timer reset
\* (watcher.go:268-269)
processBatchEvent ==
    /\ flusher.pc = "sending"
    /\ Len(changeChannel) < ChannelCap
    /\ changeChannel' = Append(changeChannel, Head(flusher.pending))
    /\ IF Tail(flusher.pending) = <<>>
       THEN /\ flusher' = [ OffFlusher EXCEPT !.pc = "idle" ]
            /\ batchTimer' = now + fwConfig.BatchTimeout
       ELSE /\ flusher' = [ flusher EXCEPT !.pending = Tail(@) ]
            /\ UNCHANGED batchTimer
    /\ UNCHANGED <<now, pmVars, toolVars, fwConfig, done, fs, writes, faults, fwState, fileHashes,
                   poller, batchChanges, errorChannel, health>>

\* main, part_003:386: the event loop receives a change
receiveChange ==
    /\ changeChannel # <<>>
    /\ changeChannel' = Tail(changeChannel)
    /\ UNCHANGED <<now, pmVars, toolVars, fwConfig, done, fs, writes, faults, fwState, fileHashes,
                   poller, batchChanges, batchTimer, flusher, errorChannel,
                   health>>

\* main, part_003:388-389: the event loop receives and prints an error
receiveError ==
    /\ errorChannel > 0
    /\ errorChannel' = errorChannel - 1
    /\ UNCHANGED <<now, pmVars, toolVars, fwConfig, done, fs, writes, faults, fwState, fileHashes,
                   poller, batchChanges, batchTimer, flusher, changeChannel,
                   health>>

MaxHealthErrors == 1    \* entries of fw.health.Errors per behaviour

\* Mutation of checkHealth: memory over the limit is also reported on the
\* error channel.
checkHealth_ReportsError ==
    /\ health.running
    /\ now >= health.nextTick
    /\ \E overLimit \in BOOLEAN :
         /\ overLimit => health.Errors < MaxHealthErrors
         /\ health' =
              [ health EXCEPT
                  !.nextTick = IF @ + fwConfig.HealthCheckInterval > now
                               THEN @ + fwConfig.HealthCheckInterval ELSE now,
                  !.IsHealthy = IF fwConfig.MemoryLimit > 0 /\ overLimit
                                THEN FALSE ELSE @,
                  !.Errors = IF fwConfig.MemoryLimit > 0 /\ overLimit
                             THEN @ + 1 ELSE @ ]
         /\ errorChannel' = IF fwConfig.MemoryLimit > 0 /\ overLimit
                            THEN errorChannel + 1 ELSE errorChannel
    /\ UNCHANGED <<now, pmVars, toolVars, fwConfig, done, fs, writes, faults,
                   fwState, fileHashes, poller, batchChanges, batchTimer,
                   flusher, changeChannel>>

\* runHealthCheck and checkHealth, watcher.go:321-358: on a tick the memory
\* in use is sampled; overLimit tells whether m.Sys exceeds MemoryLimit MiB
checkHealth ==
    /\ health.running
    /\ now >= health.nextTick
    /\ \E overLimit \in BOOLEAN :
         /\ overLimit => health.Errors < MaxHealthErrors
         /\ health' =
              [ health EXCEPT
                  !.nextTick = IF @ + fwConfig.HealthCheckInterval > now
                               THEN @ + fwConfig.HealthCheckInterval ELSE now,
                  !.IsHealthy = IF fwConfig.MemoryLimit > 0 /\ overLimit
                                THEN FALSE ELSE @,
                  !.Errors = IF fwConfig.MemoryLimit > 0 /\ overLimit
                             THEN @ + 1 ELSE @ ]
    /\ UNCHANGED <<now, pmVars, toolVars, fwConfig, done, fs, writes, faults, fwState, fileHashes,
                   poller, batchChanges, batchTimer, flusher, changeChannel,
                   errorChannel>>

\* Somebody (an editor, a build) writes new bytes to a file.
writeFile(f) ==
    /\ f \in DOMAIN fs
    /\ writes > 0
    /\ writes' = writes - 1
    /\ \E c \in Contents \ {fs[f].content} :
         fs' = [ fs EXCEPT ![f] = [ content |-> c, ver |-> @.ver + 1 ] ]
    /\ UNCHANGED <<now, pmVars, toolVars, fwConfig, done, faults, fwState, fileHashes, poller,
                   batchChanges, batchTimer, flusher, changeChannel,
                   errorChannel, health>>

\* Time passes, up to a limit.
Tick(limit) ==
    /\ now < limit
    /\ now' = now + 1
    /\ UNCHANGED <<pmVars, fwVars, toolVars>>

\* The files of the universe.
FileSet == { AllFiles[k] : k \in 1..Len(AllFiles) }

\* NewProcessManager, manager.go:32-40, for a given configuration
NewProcessManager(config) ==
    /\ pmConfig = config
    /\ cmd = NoChild
    /\ mutex = Free
    /\ stats = NewStats
    /\ lastRestart = ZeroTime
    /\ restartCount = 0
    /\ isRunning = FALSE
    /\ child = [ n \in Children |-> "none" ]
    /\ monitor = [ n \in Children |-> [ pc |-> "none", target |-> NoChild ] ]
    /\ waiter = [ n \in Children |-> "none" ]
    /\ call = [ c \in EventLoop |-> IdleCall ]
    /\ calls = 0

\* NewFileWatcher, watcher.go:34-51, for a given configuration and disk
NewFileWatcher(config) ==
    /\ fwConfig = config
    /\ fwState = FWState("new", 0)
    /\ fileHashes = [ f \in FileSet |-> NoHash ]
    /\ poller = [ i \in Roots |-> OffPoller ]
    /\ batchChanges = <<>>
    /\ batchTimer = Stopped
    /\ flusher = OffFlusher
    /\ changeChannel = <<>>
    /\ errorChannel = 0
    /\ health = NewHealth
    /\ done = Open

\* The disk and what its environment will do: the files (each with
\* content 1), the writes and the failing calls to come.
Environment(files, nWrites, nFaults) ==
    /\ fs = [ f \in files |-> [ content |-> 1, ver |-> 0 ] ]
    /\ writes = nWrites
    /\ faults = nFaults

\* The supervisor on its own, in each of its configurations.
InitPM ==
    /\ now = 0
    /\ \E config \in PMConfigs : NewProcessManager(config)
    /\ NewFileWatcher(DefaultFWConfig)
    /\ Environment({}, 0, 0)
    /\ NoLaunch
    /\ NoLoad

\* The statistics after n restarts that all failed to launch (no runner
\* found), one per clock unit, the last of them one unit ago.
StatsAfterFailures(n) ==
    [ TotalRestarts |-> n, SuccessfulRestarts |-> 0, FailedRestarts |-> n,
      AverageRestartTime |-> 0, FastestRestart |-> 0, SlowestRestart |-> 0,
      RestartHistory |->
          [ i \in 1..n |-> [ Timestamp |-> i - n - 1, Success |-> FALSE ] ] ]

\* The supervisor after PastFailures such restarts: no child was ever
\* launched, so everything but the statistics is as NewProcessManager
\* left it.
InitHistory ==
    /\ now = 0
    /\ \E config \in PMConfigs : pmConfig = config
    /\ cmd = NoChild
    /\ mutex = Free
    /\ stats = StatsAfterFailures(PastFailures)
    /\ lastRestart = ZeroTime
    /\ restartCount = 0
    /\ isRunning = FALSE
    /\ child = [ n \in Children |-> "none" ]
    /\ monitor = [ n \in Children |-> [ pc |-> "none", target |-> NoChild ] ]
    /\ waiter = [ n \in Children |-> "none" ]
    /\ call = [ c \in EventLoop |-> IdleCall ]
    /\ calls = 0
    /\ NewFileWatcher(DefaultFWConfig)
    /\ Environment({}, 0, 0)
    /\ NoLaunch
    /\ NoLoad

\* The disks explored: one file each.
Disks == { {f} : f \in FileSet }

\* The watcher on its own: each configuration with one watch path on each
\* disk, and the configuration with two overlapping watch paths on the
\* file both cover, with one write and no failing call.
InitFW ==
    /\ now = 0
    /\ NewProcessManager(PMConfig(0, 1, TRUE))
    /\ \/ \E config \in FWConfigs, files \in Disks :
            /\ NewFileWatcher(config)
            /\ Environment(files, MaxWrites, MaxFaults)
       \/ /\ NewFileWatcher(TwoRootsFWConfig)
          /\ Environment({AppJs}, MaxWrites - 1, 0)
    /\ NoLaunch
    /\ NoLoad

NextPM ==
    \/ \E c \in EventLoop : Start(c)
    \/ \E c \in EventLoop : Restart(c)
    \/ \E c \in EventLoop : Stop(c)
    \/ \E c \in EventLoop : stopProcess(c)
    \/ \E c \in EventLoop : gracefulTimeout(c)
    \/ \E c \in EventLoop : gracefulDone(c)
    \/ \E n \in Children : waiterReturns(n)
    \/ \E c \in EventLoop : startProcess(c)
    \/ \E m \in Children : monitorBegin(m)
    \/ \E m \in Children : monitorWait(m)
    \/ \E m \in Children : monitorClear(m)
    \/ \E n \in Children : childExit(n)
    \/ Tick(MaxTime)

SpecPM == InitPM /\ [][NextPM]_vars

SpecHistory == InitHistory /\ [][NextPM]_vars

\* The configurations of the supervisor called by two goroutines: graceful
\* shutdown with a restart delay, and a ceiling of two with neither.
ConcurrentPMConfigs == { PMConfig(0, 1, TRUE), PMConfig(2, 0, FALSE) }

\* The supervisor with two goroutines calling Start, Restart and Stop.
InitConcurrent ==
    /\ now = 0
    /\ pmConfig \in ConcurrentPMConfigs
    /\ cmd = NoChild
    /\ mutex = Free
    /\ stats = NewStats
    /\ lastRestart = ZeroTime
    /\ restartCount = 0
    /\ isRunning = FALSE
    /\ child = [ n \in Children |-> "none" ]
    /\ monitor = [ n \in Children |-> [ pc |-> "none", target |-> NoChild ] ]
    /\ waiter = [ n \in Children |-> "none" ]
    /\ call = [ c \in TwoGoroutines |-> IdleCall ]
    /\ calls = 0
    /\ NewFileWatcher(DefaultFWConfig)
    /\ Environment({}, 0, 0)
    /\ NoLaunch
    /\ NoLoad

NextConcurrent ==
    \/ \E c \in TwoGoroutines : Start(c)
    \/ \E c \in TwoGoroutines : Restart(c)
    \/ \E c \in TwoGoroutines : Stop(c)
    \/ \E c \in TwoGoroutines : stopProcess(c)
    \/ \E c \in TwoGoroutines : gracefulTimeout(c)
    \/ \E c \in TwoGoroutines : gracefulDone(c)
    \/ \E n \in Children : waiterReturns(n)
    \/ \E c \in TwoGoroutines : startProcess(c)
    \/ \E m \in Children : monitorBegin(m)
    \/ \E m \in Children : monitorWait(m)
    \/ \E m \in Children : monitorClear(m)
    \/ \E n \in Children : childExit(n)
    \/ Tick(MaxTime)

SpecConcurrent == InitConcurrent /\ [][NextConcurrent]_vars

NextFW ==
    \/ fwStart
    \/ \E i \in Roots : watchPath(i)
    \/ \E i \in Roots : pollTick(i)
    \/ \E i \in Roots : visit(i)
    \/ \E i \in Roots : hashFile(i)
    \/ \E i \in Roots : compareHash(i)
    \/ \E i \in Roots : storeHash(i)
    \/ \E i \in Roots : createChangeEvent(i)
    \/ \E i \in Roots : handleChange(i)
    \/ processBatchChanges
    \/ processBatchEvent
    \/ receiveChange
    \/ receiveError
    \/ checkHealth
    \/ \E f \in FileSet : writeFile(f)
    \/ Tick(MaxWatchTime)

SpecFW == InitFW /\ [][NextFW]_vars

----------------------------------------------------------------------------
(* The orchestrator: main and handleFileChange of part_003:311-422, which  *)
(* start the supervisor, then the watcher, and restart the child for every *)
(* change received.                                                        *)

\* The tool's process ends: every goroutine of it is gone.  The children it
\* launched are processes of their own and stay as they are.
ToolEnds(how) ==
    /\ call' = [ c \in Callers |-> [ call[c] EXCEPT !.pc = how ] ]
    /\ monitor' = [ n \in Children |-> [ pc |-> "none", target |-> NoChild ] ]
    /\ waiter' = [ n \in Children |-> "none" ]
    /\ poller' = [ i \in Roots |-> OffPoller ]
    /\ flusher' = OffFlusher
    /\ batchTimer' = Stopped
    /\ health' = [ health EXCEPT !.running = FALSE ]
    /\ fwState' = FWState("exited", 0)
    /\ UNCHANGED <<now, pmConfig, cmd, mutex, stats, lastRestart, restartCount,
                   isRunning, child, calls, fwConfig, done, fs, writes, faults,
                   fileHashes, batchChanges, errorChannel, toolVars>>

\* The tool's process ends outside the receipt of a change.
ToolExits(how) ==
    /\ ToolEnds(how)
    /\ UNCHANGED changeChannel

\* main, part_003:368-369: pm.Start() is the first call
mainStartProcess ==
    /\ calls = 0
    /\ fwState.phase = "new"
    /\ Start("main")

\* main, part_003:369-372 and 375-378: pm.Start() or fw.Start() returned an
\* error and main calls os.Exit(1)
mainExit ==
    /\ call["main"].pc = "idle"
    /\ IF fwState.phase = "new"
       THEN call["main"].op = "Start" /\ call["main"].result # "ok"
       ELSE fwState.phase = "failed"
    /\ ToolExits("exited")

\* main, part_003:374-375: fw.Start() is called once pm.Start() returned nil
mainStartWatcher ==
    /\ call["main"].op = "Start"
    /\ call["main"].pc = "idle"
    /\ call["main"].result = "ok"
    /\ fwStart

\* handleFileChange, part_003:400-404: event.PreviousHash[:8] and
\* event.Hash[:8] are evaluated when PreviousHash is not empty.  A digest
\* has 32 characters; slicing the empty string to 8 is a run-time panic,
\* which nothing recovers.
SlicePanics(event) ==
    /\ ~event.IsDirectory
    /\ event.PreviousHash # NoHash
    /\ event.Hash = NoHash

\* main, part_003:386-387, and handleFileChange, part_003:394-422: the event
\* loop receives a change, formats the reason and calls pm.Restart
handleFileChange ==
    /\ fwState.phase = "running"
    /\ call["main"].pc = "idle"
    /\ changeChannel # <<>>
    /\ changeChannel' = Tail(changeChannel)
    /\ IF SlicePanics(Head(changeChannel))
       THEN ToolEnds("panicked")
       ELSE /\ RestartCall("main")
            /\ UNCHANGED <<fwConfig, done, fs, writes, faults, fwState, fileHashes,
                           poller, batchChanges, batchTimer, flusher,
                           errorChannel, health, toolVars>>

\* main, part_003:388-389: the event loop, between two changes, receives an
\* error and prints it
mainReceiveError ==
    /\ fwState.phase = "running"
    /\ call["main"].pc = "idle"
    /\ receiveError

\* The child reacts to the interrupt signal of a graceful stop by exiting;
\* the script is a server that does not end on its own.
childReacts ==
    /\ \E c \in Callers : call[c].pc = "gracefulWait"
    /\ cmd # NoChild
    /\ childExit(cmd)

\* The tool receives an interrupt signal.  main (part_003:311-392) installs
\* no handler, so the Go runtime ends the process at once.
interrupt ==
    /\ \A c \in Callers : call[c].pc \notin {"exited", "interrupted", "panicked"}
    /\ ToolExits("interrupted")

\* The number of modifications of the script in the end-to-end scenario.
Modifications == 1

\* The configurations of the supervisor in the end-to-end scenario: no
\* restart ceiling (the default), graceful shutdown on (the default) and off.
MainPMConfigs == { PMConfig(0, 0, TRUE), PMConfig(0, 0, FALSE) }

\* The tool started on proj/src/app.js, watching proj with the default
\* watcher configuration; every file-system call succeeds.
InitMain ==
    /\ now = 0
    /\ \E config \in MainPMConfigs : NewProcessManager(config)
    /\ NewFileWatcher(DefaultFWConfig)
    /\ Environment({AppJs}, Modifications, 0)
    /\ NoLaunch
    /\ NoLoad

NextMain ==
    \/ mainStartProcess
    \/ mainExit
    \/ mainStartWatcher
    \/ handleFileChange
    \/ interrupt
    \/ \E c \in EventLoop : stopProcess(c)
    \/ \E c \in EventLoop : gracefulTimeout(c)
    \/ \E c \in EventLoop : gracefulDone(c)
    \/ \E n \in Children : waiterReturns(n)
    \/ \E c \in EventLoop : startProcess(c)
    \/ \E m \in Children : monitorBegin(m)
    \/ \E m \in Children : monitorWait(m)
    \/ \E m \in Children : monitorClear(m)
    \/ childReacts
    \/ \E i \in Roots : watchPath(i)
    \/ \E i \in Roots : pollTick(i)
    \/ \E i \in Roots : visit(i)
    \/ \E i \in Roots : hashFile(i)
    \/ \E i \in Roots : compareHash(i)
    \/ \E i \in Roots : storeHash(i)
    \/ \E i \in Roots : createChangeEvent(i)
    \/ \E i \in Roots : handleChange(i)
    \/ processBatchChanges
    \/ processBatchEvent
    \/ \E f \in FileSet : writeFile(f)
    \/ Tick(MaxTime)

SpecMain == InitMain /\ [][NextMain]_vars

\* The same tool, with file hashing on (the default) and off, on a disk
\* whose calls may fail: LoopFaults file-system calls fail.
LoopFaults == 1

LoopFWConfigs ==
    { DefaultFWConfig, [ DefaultFWConfig EXCEPT !.EnableFileHashing = FALSE ] }

InitLoop ==
    /\ now = 0
    /\ \E config \in MainPMConfigs : NewProcessManager(config)
    /\ \E config \in LoopFWConfigs : NewFileWatcher(config)
    /\ Environment({AppJs}, Modifications, LoopFaults)
    /\ NoLaunch
    /\ NoLoad

NextLoop ==
    \/ NextMain
    \/ mainReceiveError

SpecLoop == InitLoop /\ [][NextLoop]_vars

\* Stop, watcher.go:81-93, called by a goroutine other than the event
\* loop: with GracefulShutdown it first waits for fw.done, which nobody
\* else closes, or for the timeout; then it closes fw.done.  The watcher
\* and the supervisor are built from the same configuration
\* (part_003:356-366), so the two fields are those of pmConfig.
fwStop ==
    /\ fwState.phase = "running"
    /\ done.state = "open"
    /\ done' = IF pmConfig.GracefulShutdown
               THEN [ state |-> "stopping",
                      deadline |-> now + pmConfig.GracefulShutdownTimeout ]
               ELSE [ Open EXCEPT !.state = "closed" ]
    /\ UNCHANGED <<now, pmVars, toolVars, fwConfig, fs, writes, faults,
                   fwState, fileHashes, poller, batchChanges, batchTimer,
                   flusher, changeChannel, errorChannel, health>>

\* Stop, watcher.go:88-92: the timeout of the graceful wait, then the close
fwStopTimeout ==
    /\ done.state = "stopping"
    /\ now >= done.deadline
    /\ done' = [ Open EXCEPT !.state = "closed" ]
    /\ UNCHANGED <<now, pmVars, toolVars, fwConfig, fs, writes, faults,
                   fwState, fileHashes, poller, batchChanges, batchTimer,
                   flusher, changeChannel, errorChannel, health>>

\* watchPathForChanges, watcher.go:128-130: the poller, between two walks,
\* finds fw.done closed and returns
pollerExit(i) ==
    /\ done.state = "closed"
    /\ poller[i].pc = "idle"
    /\ poller' = [ poller EXCEPT ![i] = OffPoller ]
    /\ UNCHANGED <<now, pmVars, toolVars, fwConfig, done, fs, writes, faults,
                   fwState, fileHashes, batchChanges, batchTimer, flusher,
                   changeChannel, errorChannel, health>>

\* processBatchChanges, watcher.go:254-256: the batch goroutine, between
\* two flushes, finds fw.done closed and returns
flusherExit ==
    /\ done.state = "closed"
    /\ flusher.pc = "idle"
    /\ flusher' = OffFlusher
    /\ UNCHANGED <<now, pmVars, toolVars, fwConfig, done, fs, writes, faults,
                   fwState, fileHashes, poller, batchChanges, batchTimer,
                   changeChannel, errorChannel, health>>

\* runHealthCheck, watcher.go:326-328: the health goroutine finds fw.done
\* closed and returns
healthExit ==
    /\ done.state = "closed"
    /\ health.running
    /\ health' = [ health EXCEPT !.running = FALSE ]
    /\ UNCHANGED <<now, pmVars, toolVars, fwConfig, done, fs, writes, faults,
                   fwState, fileHashes, poller, batchChanges, batchTimer,
                   flusher, changeChannel, errorChannel>>

\* The tool with the health check on, in a program that shuts the watcher
\* down with fw.Stop(); every file-system call succeeds.
InitShutdown ==
    /\ now = 0
    /\ \E config \in MainPMConfigs : NewProcessManager(config)
    /\ NewFileWatcher([ DefaultFWConfig EXCEPT !.HealthCheck = TRUE ])
    /\ Environment({AppJs}, Modifications, 0)
    /\ NoLaunch
    /\ NoLoad

NextShutdown ==
    \/ NextMain
    \/ checkHealth
    \/ fwStop
    \/ fwStopTimeout
    \/ \E i \in Roots : pollerExit(i)
    \/ flusherExit
    \/ healthExit

SpecShutdown == InitShutdown /\ [][NextShutdown]_vars

\* The tool (graceful shutdown on, the default) with two modifications of
\* app.js, every file-system call succeeding, under a fair scheduler: the Go runtime runs every goroutine
\* that can take a step (the pollers, the batch goroutine, the event loop
\* with the call it is in, the monitors and wait goroutines), timers fire
\* and the clock advances.  What the environment does (writes, the child's
\* reaction to a signal, the interrupt of the tool) is under no obligation.
BatchWrites == 2

InitBatch ==
    /\ now = 0
    /\ NewProcessManager(PMConfig(0, 0, TRUE))
    /\ NewFileWatcher(DefaultFWConfig)
    /\ Environment({AppJs}, BatchWrites, 0)
    /\ NoLaunch
    /\ NoLoad

PollerSteps ==
    \E i \in Roots :
        \/ pollTick(i) \/ visit(i) \/ hashFile(i) \/ compareHash(i)
        \/ storeHash(i) \/ createChangeEvent(i) \/ handleChange(i)

FlusherSteps == processBatchChanges \/ processBatchEvent

LoopSteps ==
    \/ mainStartProcess \/ mainExit \/ mainStartWatcher \/ handleFileChange
    \/ \E i \in Roots : watchPath(i)
    \/ \E c \in EventLoop :
         stopProcess(c) \/ gracefulTimeout(c) \/ gracefulDone(c) \/ startProcess(c)

MonitorSteps ==
    \/ \E m \in Children : monitorBegin(m) \/ monitorWait(m) \/ monitorClear(m)
    \/ \E n \in Children : waiterReturns(n)

Scheduling ==
    /\ WF_vars(PollerSteps)
    /\ WF_vars(FlusherSteps)
    /\ WF_vars(LoopSteps)
    /\ WF_vars(MonitorSteps)
    /\ WF_vars(Tick(MaxTime))

FairBatch == InitBatch /\ [][NextMain]_vars /\ Scheduling

----------------------------------------------------------------------------
(* The pure functions on their own *)

\* The idle supervisor and watcher that the specifications of the pure
\* functions carry along.
Idle ==
    /\ now = 0
    /\ NewProcessManager(PMConfig(0, 1, TRUE))
    /\ NewFileWatcher(DefaultFWConfig)
    /\ Environment({}, 0, 0)

\* determineRunner for every script, configuration and set of installations.
InitRunner ==
    /\ Idle
    /\ script \in Scripts
    /\ runner = NoRunner
    /\ NoLoad

NextRunner == resolveRunner

SpecRunner == InitRunner /\ [][NextRunner]_vars

\* LoadConfig for every command line and configuration file.
InitConfig ==
    /\ Idle
    /\ NoLaunch
    /\ flags \in CommandLines
    /\ configFile \in ConfigFiles
    /\ finalConfig = NotLoaded

NextConfig == loadConfig

SpecConfig == InitConfig /\ [][NextConfig]_vars

----------------------------------------------------------------------------
(* Claims about the supervisor *)

\* The children launched so far.
Launched == { n \in Children : child[n] # "none" }

\* A step in which caller c calls Restart.
RestartBegins(c) ==
    /\ call[c].pc = "idle"
    /\ calls' = calls + 1
    /\ call'[c].op = "Restart"

\* A step in which the Restart that caller c calls is refused by the
\* ceiling: the call returns in the step that makes it.
RestartIsRefused(c) ==
    /\ RestartBegins(c)
    /\ call'[c].pc = "idle"
    /\ call'[c].result = "limit"

\* The successful restarts that began within ResetRestartsAfter of now.
RecentRestarts ==
    { i \in DOMAIN stats.RestartHistory :
        /\ stats.RestartHistory[i].Success
        /\ stats.RestartHistory[i].Timestamp >= now - pmConfig.ResetRestartsAfter }

\* C1: at every instant at most one child launched by the manager is alive.
C1_SingleChild == Cardinality(AliveChildren) <= 1

\* C2: with MaxRestarts = k > 0, a Restart attempted when k restarts have
\* succeeded within ResetRestartsAfter is refused with the restart-limit
\* error, and a refused Restart leaves the child handle, isRunning,
\* restartCount, lastRestart, the statistics and every child untouched.
C2_CeilingRefuses ==
    [][\A c \in Callers :
        /\ ( /\ RestartBegins(c)
             /\ pmConfig.MaxRestarts > 0
             /\ Cardinality(RecentRestarts) >= pmConfig.MaxRestarts )
           => RestartIsRefused(c)
        /\ RestartIsRefused(c)
           => UNCHANGED <<cmd, isRunning, restartCount, lastRestart, stats,
                          child, monitor, mutex>>
      ]_vars

\* C2 witness: the third Restart within the window has just been refused
\* with MaxRestarts = 2, two restarts having succeeded, the child running.
C2_Witness ==
    /\ pmConfig.MaxRestarts = 2
    /\ Cardinality(RecentRestarts) = 2
    /\ call["main"].op = "Restart"
    /\ call["main"].pc = "idle"
    /\ call["main"].result = "limit"
    /\ isRunning
    /\ Alive(cmd)

\* C3: with MaxRestarts > 0, a Restart attempted more than
\* ResetRestartsAfter after the last launch is not refused and resets the
\* counter to zero; when its launch succeeds the counter is 1.
C3_WindowResets ==
    [][\A c \in Callers :
        /\ ( /\ RestartBegins(c)
             /\ pmConfig.MaxRestarts > 0
             /\ WindowExpired )
           => /\ ~RestartIsRefused(c)
              /\ call'[c].pc # "idle"
              /\ restartCount' = 0
        /\ ( /\ call[c].op = "Restart"
             /\ call[c].pc = "startProcess"
             /\ pmConfig.MaxRestarts > 0
             /\ call[c].startTime - lastRestart > pmConfig.ResetRestartsAfter
             /\ call'[c].pc = "idle"
             /\ call'[c].result = "ok" )
           => restartCount' = 1
      ]_vars

\* C3 witness: with MaxRestarts = 1 a second child has been launched by a
\* Restart that came after the window: the counter had reached the ceiling
\* and is 1 again.
C3_Witness ==
    /\ pmConfig.MaxRestarts = 1
    /\ Cardinality(Launched) = 2
    /\ call["main"].op = "Restart"
    /\ call["main"].pc = "idle"
    /\ call["main"].result = "ok"
    /\ stats.SuccessfulRestarts = 1
    /\ restartCount = 1

\* A step in which the call of caller c returns.
Returns(c) ==
    /\ call'[c].pc = "idle"
    /\ \/ call[c].pc # "idle"
       \/ calls' = calls + 1

\* C13: TotalRestarts is the sum of SuccessfulRestarts and FailedRestarts.
C13_StatsAddUp ==
    stats.TotalRestarts = stats.SuccessfulRestarts + stats.FailedRestarts

\* C13 witness: restarts of both kinds have been recorded.
C13_Witness ==
    /\ stats.SuccessfulRestarts >= 1
    /\ stats.FailedRestarts >= 1

\* C14: every call of Restart, whatever its outcome, appends one entry to
\* RestartHistory and adds one to TotalRestarts by the time it returns.
C14_EveryRestartRecorded ==
    [][\A c \in Callers :
        (Returns(c) /\ call'[c].op = "Restart")
        => /\ Len(stats'.RestartHistory) = Len(stats.RestartHistory) + 1
           /\ stats'.TotalRestarts = stats.TotalRestarts + 1
      ]_vars

\* C17: a Start called while isRunning is true returns the "already
\* running" error in the step that makes it, launching no child and leaving
\* the child handle, restartCount, lastRestart and isRunning as they are;
\* a Start that goes on to startProcess found isRunning false.
C17_StartOnlyWhenIdle ==
    [][\A c \in Callers :
        ( /\ call[c].pc = "idle"
          /\ calls' = calls + 1
          /\ call'[c].op = "Start" )
        => IF isRunning
           THEN /\ call'[c].pc = "idle"
                /\ call'[c].result = "already running"
                /\ UNCHANGED <<cmd, child, monitor, restartCount, lastRestart,
                               isRunning, stats>>
           ELSE call'[c].pc = "startProcess"
      ]_vars

\* C17 witness: a Start has been refused while the child runs.
C17_Witness ==
    /\ call["main"].op = "Start"
    /\ call["main"].pc = "idle"
    /\ call["main"].result = "already running"
    /\ isRunning
    /\ Alive(cmd)

C15_StopIdempotent ==
    [][\A c \in Callers :
        ( /\ call[c].op = "Stop"
          /\ call[c].pc = "stopProcess"
          /\ AliveChildren = {}
          /\ Returns(c) )
        => /\ call'[c].result = "ok"
           /\ UNCHANGED <<cmd, child, stats, restartCount, lastRestart>>
      ]_vars

\* A step in which the call of caller c kills the child of the handle.
Kills(c) ==
    /\ call'[c] # call[c]
    /\ cmd # NoChild
    /\ child[cmd] = "running"
    /\ child'[cmd] = "exited"

\* A step in which the call of caller c sends the interrupt signal and
\* starts to wait.
Signals(c) ==
    /\ call[c].pc = "stopProcess"
    /\ call'[c].pc = "gracefulWait"

\* C16: with GracefulShutdown the stop first signals and waits; the child is
\* killed only from that wait and only when GracefulShutdownTimeout has
\* passed since the signal, and once it has passed a child that is still
\* running is killed by the next step of the call.  Without
\* GracefulShutdown the child is killed by the first step of the stop, with
\* no signal and no wait.
C16_GracefulThenKill ==
    [][\A c \in Callers :
        /\ Signals(c)
           => /\ pmConfig.GracefulShutdown
              /\ call'[c].deadline = now + pmConfig.GracefulShutdownTimeout
              /\ UNCHANGED <<child, isRunning>>
        /\ Kills(c)
           => IF pmConfig.GracefulShutdown
              THEN /\ call[c].pc = "gracefulWait"
                   /\ now >= call[c].deadline
              ELSE call[c].pc = "stopProcess"
        /\ ( /\ call[c].pc = "gracefulWait"
             /\ now >= call[c].deadline
             /\ Alive(cmd)
             /\ call'[c] # call[c] )
           => /\ Kills(c)
              /\ ~isRunning'
        /\ ( /\ call[c].pc = "stopProcess"
             /\ ~pmConfig.GracefulShutdown
             /\ isRunning
             /\ Alive(cmd) )
           => (call'[c] # call[c] => Kills(c) /\ call'[c].pc # "gracefulWait")
      ]_vars

\* C16 witness: a graceful Stop of a child that ignored the signal has
\* returned after killing it: the child is dead but was never waited for,
\* and the timeout has passed.
C16_Witness ==
    /\ pmConfig.GracefulShutdown
    /\ calls = 2
    /\ call["main"].op = "Stop"
    /\ call["main"].pc = "idle"
    /\ call["main"].result = "ok"
    /\ cmd # NoChild
    /\ child[cmd] = "exited"
    /\ ~isRunning
    /\ now >= pmConfig.GracefulShutdownTimeout

\* C23: two concurrent calls among Start, Restart and Stop never interleave:
\* a call in progress holds the mutex from its first step to its return
\* (over the stop, the delay and the start of a Restart), no other call is
\* in progress meanwhile, and the child handle is replaced by a call only
\* while it holds the mutex.
C23_CallsSerialized ==
    [][/\ \A c, d \in Callers :
            call[c].pc # "idle"
            => /\ mutex = c
               /\ d # c => call[d].pc = "idle" /\ call'[d] = call[d]
       /\ \A c \in Callers :
            (call[c].pc # "idle" /\ call'[c].pc # "idle") => mutex' = c
       /\ cmd' # cmd => \E c \in Callers : mutex = c /\ call'[c] # call[c]
      ]_vars

\* C23 witness: with two goroutines calling, one is inside a Restart that
\* has stopped the old child and sleeps through the restart delay before
\* the launch; the other has made a call before and makes none now.
C23_Witness ==
    /\ Callers = TwoGoroutines
    /\ call["main"].op = "Restart"
    /\ call["main"].pc = "startProcess"
    /\ now < call["main"].deadline
    /\ mutex = "main"
    /\ cmd # NoChild
    /\ child[cmd] # "running"
    /\ call["other"].op = "Start"
    /\ call["other"].result = "ok"

\* C24: whenever no call is in progress and isRunning is false, no child
\* the manager launched is alive.
C24_NotRunningMeansNoChild ==
    ((\A c \in Callers : call[c].pc = "idle") /\ ~isRunning)
    => AliveChildren = {}

\* C25: when the child has exited on its own (no Stop or Restart was ever
\* called), the step in which the monitor marks the supervisor as not
\* running appends a record of that exit to RestartHistory.
C25_ExitRecorded ==
    [][\A m \in Children :
        ( /\ calls = 1
          /\ \A c \in Callers : call[c].op = "Start"
          /\ monitor[m].pc = "locking"
          /\ monitor'[m].pc = "none" )
        => /\ ~isRunning'
           /\ Len(stats'.RestartHistory) = Len(stats.RestartHistory) + 1
      ]_vars

\* C26: a Restart whose graceful stop timed out, so that the child was
\* killed, has added one to FailedRestarts when it returns.
C26_TimeoutRecordedAsFailure ==
    [][\A c \in Callers :
        (call[c].op = "Restart" /\ call[c].timedOut /\ Returns(c))
        => stats'.FailedRestarts = stats.FailedRestarts + 1
      ]_vars

\* The history is in the order of the attempts.
Chronological(history) ==
    \A i \in 1..(Len(history) - 1) :
        history[i].Timestamp <= history[i + 1].Timestamp

\* C19: RestartHistory never holds more than 100 entries; an attempt is
\* appended at the end, and when 100 entries are held the oldest one is
\* dropped for it, so the history is the most recent attempts in order.
C19_HistoryBounded ==
    [][LET old == stats.RestartHistory
           new == stats'.RestartHistory
           kept == IF Len(old) >= 100 THEN Tail(old) ELSE old
       IN /\ Len(new) <= 100
          /\ Chronological(new)
          /\ new # old => /\ Len(new) = Len(kept) + 1
                          /\ SubSeq(new, 1, Len(kept)) = kept
                          /\ stats'.TotalRestarts = stats.TotalRestarts + 1
      ]_vars

\* C19 witness: two attempts were recorded on top of 99, the oldest entry
\* was dropped and 100 are held.
C19_Witness ==
    /\ stats.TotalRestarts = PastFailures + 2
    /\ Len(stats.RestartHistory) = 100
    /\ stats.RestartHistory[100].Timestamp >= 0
    /\ stats.RestartHistory[1].Timestamp =
           stats.TotalRestarts - 100 - PastFailures

----------------------------------------------------------------------------
(* Claims about the watcher *)

\* The events the pollers hold between createChangeEvent and handleChange.
HeldEvents ==
    (IF poller[1].pc = "handleChange" THEN <<poller[1].event>> ELSE <<>>)
    \o (IF poller[2].pc = "handleChange" THEN <<poller[2].event>> ELSE <<>>)

\* Every event that exists: held by a poller, in the batch, being flushed,
\* or on the change channel.
EmittedEvents ==
    HeldEvents \o batchChanges \o flusher.pending \o changeChannel

\* Some segment of the path is an ignore pattern.
HasIgnoredSegment(path) ==
    \E k \in 1..Len(fwConfig.IgnorePaths), j \in 1..Len(path) :
        fwConfig.IgnorePaths[k] = << path[j] >>

\* The extension of the name is in the allow-list.
HasValidExtension(name) ==
    \E k \in 1..Len(fwConfig.Extensions) : Ext(name) = fwConfig.Extensions[k]

\* C4: a flush happens only when BatchTimeout has elapsed since the last
\* event was enqueued (every enqueued event restarts the countdown), so no
\* flushed event is younger than BatchTimeout at the time of the flush.
C4_SlidingDebounce ==
    flusher.pc = "sending" =>
        \A k \in 1..Len(flusher.pending) :
            flusher.timestamp - flusher.pending[k].Timestamp >= fwConfig.BatchTimeout

\* C5: a flush forwards at most one event per path.
C5_DedupByPath ==
    flusher.pc = "sending" =>
        \A j, k \in 1..Len(flusher.pending) :
            j # k => flusher.pending[j].FullPath # flusher.pending[k].FullPath

\* C6: no content version of a file produces more than one ChangeEvent.
C6_OneEventPerVersion ==
    \A j, k \in 1..Len(EmittedEvents) :
        j # k => ~( /\ EmittedEvents[j].FullPath = EmittedEvents[k].FullPath
                    /\ EmittedEvents[j].Ver = EmittedEvents[k].Ver )

\* C7: for a file that is never written, once its hash is recorded
\* hasFileChanged returns false and the stored hash stays as it is.
C7_UnchangedFileIsQuiet ==
    [][\A f \in DOMAIN fs :
        (fs[f].ver = 0 /\ fs'[f].ver = 0 /\ fileHashes[f] # NoHash)
        => /\ fileHashes'[f] = fileHashes[f]
           /\ \A i \in Roots :
                (poller[i].pc = "compare" /\ poller[i].path = f)
                => poller'[i].pc # "store"
      ]_vars

\* C8: every event on the change channel is for a path that matches no
\* ignore pattern, is within the size limit and has an allowed extension.
C8_OnlyFilteredPaths ==
    \A k \in 1..Len(changeChannel) :
        /\ ~Ignored(changeChannel[k].FullPath)
        /\ ~TooLarge(changeChannel[k].Size)
        /\ HasValidExtension(changeChannel[k].Filename)

\* C9: no event is delivered for a path that has an ignore pattern as one
\* of its segments, at any depth.
C9_IgnoredSegment ==
    \A k \in 1..Len(changeChannel) :
        ~HasIgnoredSegment(changeChannel[k].FullPath)

\* C10: with WatchDotFiles false no event is delivered for a file whose
\* name starts with a dot, unless its extension is allowed.
C10_DotFilesIgnored ==
    \A k \in 1..Len(changeChannel) :
        (~fwConfig.WatchDotFiles /\ StartsWithDot(changeChannel[k].Filename))
        => HasValidExtension(changeChannel[k].Filename)

\* One of the secondary filters applies to the event: it is an empty file
\* and those are excluded, it is over the size limit, or its extension is
\* not allowed.
HasDropReason(e) ==
    \/ fwConfig.ExcludeEmptyFiles /\ e.Size = 0 /\ ~e.IsDirectory
    \/ fwConfig.MaxFileSize > 0 /\ e.Size > fwConfig.MaxFileSize * MiB
    \/ ~HasValidExtension(e.Filename)

\* The events of a batch that no secondary filter applies to.
Forwardable(batch) == SelectSeq(batch, LAMBDA e : ~HasDropReason(e))

\* C11: with batching, an event handed to handleChange is appended to the
\* batch; the batch changes in no other way than by such an append or by
\* the flush that takes all of it; the flush keeps every event that no
\* secondary filter applies to, in order; each event of the flushed batch
\* is sent on the change channel once, and nothing else is sent.
C11_NoEventLost ==
    [][fwConfig.BatchChanges =>
        /\ \A i \in Roots :
             (poller[i].pc = "handleChange" /\ poller'[i].pc # "handleChange")
             => /\ batchChanges' = Append(batchChanges, poller[i].event)
                /\ UNCHANGED <<flusher, changeChannel>>
        /\ batchChanges' # batchChanges
           => \/ \E i \in Roots :
                   /\ poller[i].pc = "handleChange"
                   /\ poller'[i].pc # "handleChange"
              \/ /\ batchChanges' = <<>>
                 /\ flusher.pending = <<>>
                 /\ flusher'.pending = Forwardable(batchChanges)
                 /\ UNCHANGED changeChannel
        /\ flusher'.pending # flusher.pending
           => \/ /\ flusher.pending = <<>>
                 /\ batchChanges' = <<>>
                 /\ flusher'.pending = Forwardable(batchChanges)
              \/ /\ flusher.pending # <<>>
                 /\ flusher'.pending = Tail(flusher.pending)
                 /\ changeChannel' = Append(changeChannel, Head(flusher.pending))
                 /\ UNCHANGED batchChanges
        /\ changeChannel' # changeChannel
           => \/ /\ changeChannel # <<>>
                 /\ changeChannel' = Tail(changeChannel)
              \/ /\ flusher.pending # <<>>
                 /\ changeChannel' = Append(changeChannel, Head(flusher.pending))
                 /\ flusher'.pending = Tail(flusher.pending)
      ]_vars

\* C11 witness: with batching, one event has been flushed and forwarded
\* and a later one waits in the next batch.
C11_Witness ==
    /\ fwConfig.BatchChanges
    /\ Len(changeChannel) >= 1
    /\ Len(batchChanges) >= 1
    /\ changeChannel[1].Timestamp < batchChanges[1].Timestamp

\* C27: once the watcher polls, the stored hash of a path is updated only
\* for a change whose event is going to be emitted downstream: with
\* batching, never for a change that a secondary filter will drop at the
\* flush.
C27_HashOnlyForEmitted ==
    [][\A i \in Roots :
        ( /\ fwConfig.BatchChanges
          /\ poller[i].pc = "store"
          /\ fileHashes'[poller[i].path] # fileHashes[poller[i].path] )
        => ~HasDropReason([ Filename |-> Base(poller[i].path),
                            Size |-> poller[i].size,
                            IsDirectory |-> FALSE ])
      ]_vars

\* C28: every event carries the hash stored before the change was detected
\* as PreviousHash and the hash of the new content as Hash, so the two
\* differ in every event.
C28_PreviousHashDiffers ==
    \A k \in 1..Len(EmittedEvents) :
        EmittedEvents[k].PreviousHash # EmittedEvents[k].Hash

\* The number of times an event occurs in a sequence of events.
Occurrences(e, events) ==
    Cardinality({ k \in 1..Len(events) : events[k] = e })

\* C29: on a flush an event of the batch is forwarded if and only if no
\* secondary filter applies to it: an excluded empty file, a file over
\* MaxFileSize MiB and a file whose extension is not allowed are dropped,
\* every other event is forwarded (as often as it is in the batch), and
\* what is forwarded goes to the change channel.
C29_FlushFilters ==
    [][/\ (batchChanges # <<>> /\ batchChanges' = <<>>)
          => /\ \A k \in 1..Len(batchChanges) :
                  Occurrences(batchChanges[k], flusher'.pending) =
                      IF HasDropReason(batchChanges[k]) THEN 0
                      ELSE Occurrences(batchChanges[k], batchChanges)
             /\ \A k \in 1..Len(flusher'.pending) :
                  Occurrences(flusher'.pending[k], batchChanges) > 0
       /\ (flusher.pc = "sending" /\ flusher' # flusher)
          => /\ changeChannel' = Append(changeChannel, Head(flusher.pending))
             /\ flusher'.pending = Tail(flusher.pending)
      ]_vars

\* C29 witness: an excluded empty version of app.js was detected and dropped,
\* and the flush forwards the event of the non-empty version written after
\* it (no file-system call failed, so that event exists only because the
\* empty version was detected).
C29_Witness ==
    /\ fwConfig.ExcludeEmptyFiles
    /\ faults = MaxFaults
    /\ flusher.pc = "sending"
    /\ Len(flusher.pending) = 1
    /\ flusher.pending[1].FullPath = AppJs
    /\ flusher.pending[1].Ver = 2
    /\ flusher.pending[1].Size = MiB
    /\ changeChannel = <<>>

\* C30: with batching disabled, the step that hands an event to
\* handleChange sends that event, as a message of its own, at the end of
\* the change channel; nothing else is ever sent; the batch accumulator
\* stays empty and nothing is flushed.
C30_UnbatchedForwarding ==
    [][~fwConfig.BatchChanges =>
        /\ batchChanges = <<>> /\ batchChanges' = <<>>
        /\ flusher.pending = <<>> /\ flusher'.pending = <<>>
        /\ \A i \in Roots :
             (poller[i].pc = "handleChange" /\ poller'[i].pc # "handleChange")
             => changeChannel' = Append(changeChannel, poller[i].event)
        /\ changeChannel' # changeChannel
           => \/ /\ changeChannel # <<>>
                 /\ changeChannel' = Tail(changeChannel)
              \/ \E i \in Roots :
                   /\ poller[i].pc = "handleChange"
                   /\ poller'[i].pc # "handleChange"
                   /\ changeChannel' = Append(changeChannel, poller[i].event)
      ]_vars

\* C30 witness: without batching, the events of two successive versions of
\* a file are on the change channel, each on its own, in the order in
\* which they were detected.
C30_Witness ==
    /\ ~fwConfig.BatchChanges
    /\ Len(changeChannel) = 2
    /\ changeChannel[1].FullPath = changeChannel[2].FullPath
    /\ changeChannel[1].Ver = 1
    /\ changeChannel[2].Ver = 2
    /\ batchChanges = <<>>

----------------------------------------------------------------------------
(* Claims about the orchestrator *)

\* C12: once the Restart that the modification of app.js triggers has
\* returned (and the launch itself did not fail), it has succeeded, it was
\* the only Restart, the prior child is dead and the new child is the one
\* child alive.
C12_OneChangeOneRestart ==
    ( /\ call["main"].op = "Restart"
      /\ call["main"].pc = "idle"
      /\ call["main"].result # "start failed" )
    => /\ call["main"].result = "ok"
       /\ calls = 2
       /\ AliveChildren = {cmd}
       /\ Cardinality(Launched) = 2

\* C20: when the tool has ended on an interrupt signal no child it launched
\* is left alive.
C20_NoChildLeftBehind ==
    call["main"].pc = "interrupted" => AliveChildren = {}

\* C31: once the event loop runs, the tool ends only when it is interrupted
\* from outside, never on its own: a polling error is queued on the error
\* channel and the poller that met it goes on with its walk, and the receipt
\* of an error or the return of a failed Restart leaves the loop running.
C31_LoopNeverEnds ==
    [][ /\ (fwState.phase = "running" /\ fwState'.phase = "exited")
           => call'["main"].pc = "interrupted"
        /\ errorChannel' > errorChannel
           => \A i \in Roots : poller[i].pc # "off" => poller'[i].pc = "walk"
        /\ (errorChannel' < errorChannel
            \/ (call["main"].op = "Restart" /\ call["main"].pc # "idle"
                /\ call'["main"].pc = "idle" /\ call'["main"].result # "ok"))
           => fwState'.phase = "running" ]_vars

\* C32: when the run aborts at startup (pm.Start or fw.Start returned an
\* error and main exits), no poller, batch-flusher or health goroutine has
\* been started and no child process is left running.
C32_AbortBeforeSpawn ==
    [][ (call["main"].pc # "exited" /\ call'["main"].pc = "exited")
        => /\ \A i \in Roots : poller[i].pc = "off"
           /\ flusher.pc = "off"
           /\ ~health.running
           /\ AliveChildren = {} ]_vars

\* C33: once fw.done is closed no background task stays blocked forever.
\* A wait goroutine in state "blocked" is sending the result of Wait on the
\* channel of a stopProcess that has returned: no step lets it proceed.
C33_TasksExitAfterDone ==
    done.state = "closed" => \A n \in Children : waiter[n] # "blocked"

\* C34: a tick of the running health goroutine changes nothing but the
\* health snapshot: the supervisor and its child, the batch, the hashes, the
\* pollers and both channels are as before; the tick that turns IsHealthy
\* to false appends exactly one HealthError, and no tick appends more.
C34_HealthTickOnlySnapshot ==
    [][ (health.running /\ health'.running /\ health' # health)
        => /\ UNCHANGED <<pmVars, toolVars, fwConfig, done, fs, fwState,
                          fileHashes, poller, batchChanges, batchTimer,
                          flusher, changeChannel, errorChannel>>
           /\ health'.Errors \in {health.Errors, health.Errors + 1}
           /\ health'.IsHealthy # health.IsHealthy
              => (~health'.IsHealthy /\ health'.Errors = health.Errors + 1) ]_vars

\* A tick has found the memory over the limit while the child runs.
C34_Witness ==
    /\ health.running
    /\ AliveChildren # {}
    /\ ~health.IsHealthy
    /\ health.Errors = 1

\* C35: every launch, the one of the initial Start included, adds one to
\* the counter the ceiling is compared with; with MaxRestarts = k > 0 a
\* Restart attempted within ResetRestartsAfter of the previous launch
\* launches a child only if that makes at most k launches counted.  While
\* no more than ResetRestartsAfter has passed since the beginning (so that
\* every attempt was within the window of every launch) the counter is the
\* number of children launched, a Restart that launches makes at most k
\* children in total and, when one of them was launched by Start, at most
\* k - 1 Restarts have succeeded.  (Start itself never consults the
\* ceiling.)
C35_StartCountsTowardCeiling ==
    [][ /\ (cmd' # cmd /\ cmd' # NoChild)
           => restartCount' = restartCount + 1
        /\ \A c \in Callers :
             ( /\ call[c].op = "Restart"
               /\ call[c].pc = "startProcess"
               /\ cmd' # cmd /\ cmd' # NoChild
               /\ pmConfig.MaxRestarts > 0
               /\ call[c].startTime - lastRestart <= pmConfig.ResetRestartsAfter )
             => /\ restartCount' <= pmConfig.MaxRestarts
                /\ now <= pmConfig.ResetRestartsAfter
                   => /\ Cardinality(Launched') <= pmConfig.MaxRestarts
                      /\ Cardinality(Launched') > stats'.SuccessfulRestarts
                         => stats'.SuccessfulRestarts
                               <= pmConfig.MaxRestarts - 1
        /\ (pmConfig.MaxRestarts > 0 /\ now <= pmConfig.ResetRestartsAfter)
           => restartCount = Cardinality(Launched) ]_vars

\* With a ceiling of 2: the initial Start and one Restart launched a child,
\* and the next Restart, all within the window, was refused.
C35_Witness ==
    /\ pmConfig.MaxRestarts = 2
    /\ now <= pmConfig.ResetRestartsAfter
    /\ Cardinality(Launched) = 2
    /\ stats.SuccessfulRestarts = 1
    /\ \E c \in Callers : call[c].op = "Restart" /\ call[c].result = "limit"

\* C36: a Restart whose stop step fails leaves isRunning, the child handle,
\* restartCount and lastRestart as they were when it was called, and launches
\* no child.  The call takes several steps: the step that begins a Restart
\* whose stop is bound to fail (the child of pm.cmd has been waited for, so
\* the signal and the kill return an error) must not change the four, and
\* neither must the step in which the failed stop makes the call return.
C36_FailedStopChangesNothing ==
    [][ \A c \in Callers :
          /\ ( /\ RestartBegins(c)
               /\ ~RestartIsRefused(c)
               /\ isRunning
               /\ SignalFails(cmd) )
             => UNCHANGED <<isRunning, cmd, restartCount, lastRestart>>
          /\ ( /\ call[c].op = "Restart"
               /\ call[c].pc \in {"stopProcess", "gracefulWait"}
               /\ call'[c].pc = "idle"
               /\ call'[c].result = "stop failed" )
             => /\ UNCHANGED <<isRunning, cmd, restartCount, lastRestart>>
                /\ Launched' = Launched ]_vars

\* C37: the flush puts every surviving event of the batch on the change
\* channel as a message of its own, in the order of the batch, and every
\* message the event loop receives is followed, in the same step of the
\* loop, by its own call of Restart.
C37_OneRestartPerMessage ==
    [][ /\ (flusher.pc = "sending" /\ changeChannel' # changeChannel
            /\ Len(changeChannel') > Len(changeChannel))
           => /\ changeChannel' = Append(changeChannel, Head(flusher.pending))
              /\ flusher'.pending = Tail(flusher.pending)
        /\ (changeChannel # <<>> /\ changeChannel' = Tail(changeChannel))
           => RestartBegins("main") ]_vars

\* The tool's process has ended.
Ended == call["main"].pc \in {"exited", "interrupted", "panicked"}

\* Every call the event loop makes returns.
RestartsReturn == []<>(call["main"].pc = "idle" \/ Ended)

C39_NoHashingNoEvents ==
    ~fwConfig.EnableFileHashing
    => /\ EmittedEvents = <<>>
       /\ \A i \in Roots : poller[i].pc \in {"off", "idle", "walk"}
       /\ \A c \in Callers : call[c].op # "Restart"
       /\ stats.TotalRestarts = 0

\* With hashing off and the child running, app.js has been written and a
\* poller has walked over it.
C39_Witness ==
    /\ ~fwConfig.EnableFileHashing
    /\ AliveChildren # {}
    /\ fs[AppJs].ver = Modifications
    /\ now > fwConfig.PollingInterval
    /\ \E i \in Roots : poller[i].pc = "walk" /\ poller[i].queue = <<>>

\* C40: once a restart has succeeded, FastestRestart <= AverageRestartTime
\* <= SlowestRestart; stated for the configurations with a restart delay,
\* in which every restart takes at least one unit of the clock.
C40_AverageBetweenExtremes ==
    (pmConfig.RestartDelay > 0 /\ stats.SuccessfulRestarts >= 1)
    => /\ stats.FastestRestart <= stats.AverageRestartTime
       /\ stats.AverageRestartTime <= stats.SlowestRestart

----------------------------------------------------------------------------
(* Claims about the launch and the configuration *)

\* A runner of the given name is installed, locally or globally.
Available(name) ==
    \E place \in {"local", "global"} :
        Installation(place, name) \in script.installed

\* C21: for a .ts/.tsx script the runner is the configured typescriptRunner
\* if one is set (and installed), otherwise tsx if available, otherwise
\* ts-node if available, otherwise the choice fails with the "no runner
\* found" error; a .js/.jsx script is run with node.
C21_RunnerOrder ==
    runner # NoRunner =>
        /\ Ext(script.name) \in {"ts", "tsx"} =>
              IF script.typescriptRunner # NotSet
              THEN Available(script.typescriptRunner)
                   => runner.name = script.typescriptRunner
              ELSE IF Available("tsx") THEN runner.name = "tsx"
              ELSE IF Available("ts-node") THEN runner.name = "ts-node"
              ELSE runner.err = "no TypeScript runner found"
        /\ Ext(script.name) \in {"js", "jsx"} =>
              runner.name = "node" /\ runner.err = "none"

\* The value the order of priority gives an option: the one of the command
\* line if the option is given there, otherwise the one of the configuration
\* file if it has the key, otherwise the built-in default.
ByPriority(opt) ==
    IF flags[opt].set THEN flags[opt].val
    ELSE IF configFile.kind = "valid" /\ configFile.keys[opt].set
         THEN configFile.keys[opt].val
         ELSE Defaults[opt]

\* C22: in the configuration LoadConfig returns, every option has the value
\* of the command line if given there, otherwise the value of the
\* configuration file, otherwise the built-in default.
C22_Precedence ==
    (finalConfig.done /\ ~finalConfig.err)
    => \A opt \in Options : finalConfig.config[opt] = ByPriority(opt)

----------------------------------------------------------------------------
(* Type invariant of the supervisor model *)

TypeOKPM ==
    /\ now \in 0..MaxTime
    /\ cmd \in {NoChild} \cup Children
    /\ mutex \in {Free} \cup Callers
    /\ restartCount \in 0..MaxCalls
    /\ isRunning \in BOOLEAN
    /\ \A n \in Children : child[n] \in {"none", "running", "exited", "reaped"}

====
